---- MODULE Spec2Model ----
(***************************************************************************)
(* Classification-and-assessment pipeline of thesis-classifier.           *)
(*                                                                         *)
(* The relational store is modelled table by table: articles,             *)
(* organizations, article_classifications and criticality_scores_detail.  *)
(* Each stage run is a process: it takes a snapshot with its selection    *)
(* query and then handles the selected items one at a time.  One action   *)
(* is one item of the loop (request, parse, persist): only the persist    *)
(* touches the store, so overlapping runs interleave item by item.        *)
(*                                                                         *)
(* Model text is abstracted to its structure: a record that says which    *)
(* shape the text has (JSON object, prefixed lines, ...) and what each    *)
(* field holds; the parsers are translated branch by branch on that.      *)
(* Write-only timestamps (created_at, updated_at, criti_date) are left    *)
(* out: nothing in the program reads them.                                 *)
(***************************************************************************)
EXTENDS Integers, Sequences, FiniteSets, TLC

\* ------------------------------------------------------------------ bounds
NArticles == 2
MaxTime == 1

\* --------------------------------------------------------------- constants
NULL == "NULL"          \* Python None, SQL NULL
ABSENT == "ABSENT"      \* a key a JSON object lacks, a prefix no line has
NoScore == -1           \* SQL NULL in the integer column criti_score
NoDate == -1            \* SQL NULL in the timestamp column date_published
NoLimit == -1           \* limit=None: the query gets no LIMIT clause

Articles == 1..NArticles
Orgs == {1, 2}
Times == 0..MaxTime

ClassifyRuns == {"c1", "c2"}
AssessRuns == {"a1", "a2"}
SingleRuns == {"s1"}

Threat == "Threat"
Opportunity == "Opportunity"
Neutral == "Neutral"
ErrorUnknown == "Error: Unknown"
valid_classifications == {Threat, Opportunity, Neutral}
NoExplanation == "No explanation provided"
NoAdvice == "No specific advice provided"

PENDING == "PENDING"
CLASSIFIED == "CLASSIFIED"
FAILED_PARSE == "FAILED (to parse response)"
FAILED_NO_RESPONSE == "FAILED (no response)"
WAITING == "WAITING"
GIVEN == "GIVEN"
FAILED == "FAILED"
ParseFailedMessage == "Failed to parse criticality assessment response"
NoResponseMessage == "Failed to get response from criticality assessment API"
NoSummary == "No overall summary provided"

\* status LIKE 'FAILED%'
LikeFailed(status) == status \in {FAILED_PARSE, FAILED_NO_RESPONSE, FAILED}

\* The column defaults of the two status columns.
CritiStatusDefault == WAITING
ArticleStatusDefault == PENDING

VARIABLES
    articles,                   \* id -> row of table articles
    organizations,              \* id -> row of table organizations
    article_classifications,    \* set of rows
    criticality_scores_detail,  \* set of rows
    crun,                       \* multi-tenant classification runs
    arun,                       \* assessment runs
    srun,                       \* single-tenant classification runs
    log,                        \* the last item step: its inputs and what it wrote
    call,                       \* one invocation of the Model Client
    applied,                    \* one application of the score aggregator
    parse,                      \* one application of a parser
    env,                        \* which secrets the environment holds
    loop,                       \* each run's position inside its item loop
    ingest                      \* the links of table articles and the last store_articles call

vars == <<articles, organizations, article_classifications,
          criticality_scores_detail, crun, arun, srun, log, call, applied,
          parse, env, loop, ingest>>

\* ------------------------------------------------------------ Python values
\* Truthiness of a str or None.
Truthy(v) == v \notin {NULL, ABSENT, ""}

\* Truthiness of a tuple: a tuple is false only when it is empty.
TupleTruthy(t) == Len(t) > 0

\* str.strip() on the strings the model texts hold.
Strip(s) ==
    CASE s = " Neutral " -> Neutral
      [] s = "  " -> ""
      [] OTHER -> s

\* dict.get(key, '') for a field of a decoded object.
GetOrEmpty(v) == IF v = ABSENT THEN "" ELSE v

\* --------------------------------------------------------- classification text
\* A model text: text names the raw string, fmt its shape, and the three
\* fields hold what the object's key (fmt "json") or the prefixed line
\* (fmt "lines") holds.  fmt "none" is no text at all (None), "empty" is ''.
\* fence is the opening line of a Markdown code fence around the text, or "".
Content(text, fmt, c, e, a) ==
    [ text |-> text, fmt |-> fmt, fence |-> "",
      classification |-> c, explanation |-> e, advice |-> a ]

\* The opening lines of a code fence; ''' stands for three backquotes.
JsonFence == "'''json"
BareFence == "'''"

Fenced(response, fence) == [response EXCEPT !.fence = fence]

\* The raw string: the text with the fence's lines around it.
Raw(response) ==
    IF response.fence = "" THEN response.text
    ELSE response.fence \o "\n" \o response.text \o "\n" \o BareFence

\* response_clean: the two re.sub calls take away the lines of a fence that
\* opens with three backquotes or three backquotes and json.
Clean(response) ==
    IF response.fence \in {JsonFence, BareFence} THEN [response EXCEPT !.fence = ""]
    ELSE response

NoContent == Content(NULL, "none", ABSENT, ABSENT, ABSENT)

\* `if not response`
ContentTruthy(response) == response.fmt \notin {"none", "empty"}

\* json.loads succeeds, the value is an object and every .strip() has a str.
JsonDecodes(response) ==
    /\ Clean(response).fence = ""
    /\ response.fmt = "json"
    /\ response.classification # NULL
    /\ response.explanation # NULL
    /\ response.advice # NULL

ParseJson(response) ==
    LET classification == Strip(GetOrEmpty(response.classification))
        explanation == Strip(GetOrEmpty(response.explanation))
        advice == Strip(GetOrEmpty(response.advice))
    IN  << IF classification \notin valid_classifications
             THEN ErrorUnknown ELSE classification,
           IF ~Truthy(explanation) THEN NoExplanation ELSE explanation,
           IF ~Truthy(advice) THEN NoAdvice ELSE advice >>

\* The value the line scan leaves in a variable: None when no line has the prefix.
LineValue(response, field) ==
    IF response.fmt = "lines" /\ field # ABSENT THEN Strip(field) ELSE NULL

ParseFallback(response) ==
    LET classification == LineValue(response, response.classification)
        explanation == LineValue(response, response.explanation)
        advice == LineValue(response, response.advice)
    IN  << IF Truthy(classification) /\ classification \notin valid_classifications
             THEN ErrorUnknown ELSE classification,
           IF ~Truthy(explanation) THEN Raw(response) ELSE explanation,
           IF ~Truthy(advice) THEN NoAdvice ELSE advice >>

parse_llm_response(response) ==
    IF ~ContentTruthy(response) THEN <<NULL, NULL, NULL>>
    ELSE IF JsonDecodes(response) THEN ParseJson(response)
    ELSE ParseFallback(response)

\* What classify_article can return: (content, reasoning, finish_reason), or
\* (None, None, None) on every failure path.
ClassifyFailure == <<NoContent, NULL, NULL>>

\* The texts the stages are run on: a valid object, an object with a label
\* outside the three, an object whose label is null, and text with no
\* recognisable line.
ClassifyContents ==
    { Content("t1", "json", Threat, "X", "Y"),
      Content("t2", "json", "Maybe", "X2", "Y2"),
      Content("t3", "json", NULL, "X", "Y") }

ClassifyResults ==
    {ClassifyFailure} \cup { <<c, "R", "stop">> : c \in ClassifyContents }

\* ------------------------------------------------------------ score aggregator
required_criteria ==
    << "correctness_factual_soundness", "relevance_alignment",
       "reasoning_transparency", "practical_usefulness_actionability",
       "clarity_communication_quality", "safety_bias_appropriateness" >>

Criteria == { required_criteria[i] : i \in DOMAIN required_criteria }

\* The weights, in hundredths.
weights ==
    [ c \in Criteria |->
        CASE c = "correctness_factual_soundness" -> 25
          [] c = "relevance_alignment" -> 20
          [] c = "reasoning_transparency" -> 20
          [] c = "practical_usefulness_actionability" -> 20
          [] c = "clarity_communication_quality" -> 10
          [] c = "safety_bias_appropriateness" -> 5 ]

\* A JSON value of a scores object: a number (t "int", its value v), a string
\* (its text s) or null.
Num(v) == [t |-> "int", v |-> v, s |-> ""]
Str(v) == [t |-> "str", v |-> 0, s |-> v]
Null == [t |-> "null", v |-> 0, s |-> ""]

IsNumber(x) == x.t = "int"

\* scores.get(criterion): no default, a missing criterion gives None.
GetScoreWithoutDefault(scores, c) == IF c \in DOMAIN scores THEN scores[c] ELSE Null

\* scores.get(criterion, 0)
GetScore(scores, c) == IF c \in DOMAIN scores THEN scores[c] ELSE Num(0)

\* `score * weight` raises TypeError when score is a str or None.
RaisesTypeError(scores) == \E c \in Criteria : ~IsNumber(GetScore(scores, c))

\* The weighted sum of the scores as real numbers, in hundredths.
RECURSIVE WeightedSum(_, _)
WeightedSum(scores, i) ==
    IF i = 0 THEN 0
    ELSE WeightedSum(scores, i - 1)
         + GetScore(scores, required_criteria[i]).v * weights[required_criteria[i]]

\* ---- binary floating point
\* weighted_sum is a double.  A double of this computation is a sign and a
\* magnitude; the magnitude is a whole number of units of 2^-57 (the last place
\* of the smallest weight, 0.05) kept as five limbs of 15 bits, lowest first.
LimbBase == 2 ^ 15

Double(neg, mag) == [neg |-> neg, mag |-> mag]

\* The literals 0.25, 0.20, 0.10 and 0.05 as the doubles they denote:
\* 2^-2, 0x1.999999999999Ap-3, 0x1.999999999999Ap-4 and 0x1.999999999999Ap-5.
binary_weights ==
    [ c \in Criteria |->
        CASE c = "correctness_factual_soundness" -> <<0, 0, 0, 1024, 0>>
          [] c = "relevance_alignment" -> <<26216, 19660, 6553, 819, 0>>
          [] c = "reasoning_transparency" -> <<26216, 19660, 6553, 819, 0>>
          [] c = "practical_usefulness_actionability" -> <<26216, 19660, 6553, 819, 0>>
          [] c = "clarity_communication_quality" -> <<13108, 26214, 19660, 409, 0>>
          [] c = "safety_bias_appropriateness" -> <<6554, 13107, 26214, 204, 0>> ]

\* Limbs brought back into 0..LimbBase-1, followed by the carry out of the
\* highest one (negative when the number is).
RECURSIVE Carried(_, _, _)
Carried(x, i, c) ==
    IF i > Len(x) THEN <<c>>
    ELSE LET t == x[i] + c
         IN  <<t % LimbBase>> \o Carried(x, i + 1, t \div LimbBase)

Normal(x) == SubSeq(Carried(x, 1, 0), 1, Len(x))
IsNegative(x) == Carried(x, 1, 0)[Len(x) + 1] < 0

\* The number of significant bits of a magnitude.
BitLength(x) ==
    IF \A i \in DOMAIN x : x[i] = 0 THEN 0
    ELSE LET top == CHOOSE i \in DOMAIN x : x[i] # 0 /\ \A j \in DOMAIN x : j > i => x[j] = 0
             b == CHOOSE n \in 1..15 : 2 ^ (n - 1) <= x[top] /\ x[top] < 2 ^ n
         IN  15 * (top - 1) + b

\* x with the bits below the unit u rounded away, a tie to the even one.  The
\* bits dropped are within the lowest limb.
RoundedAt(x, u, low) ==
    IF 2 * low > u \/ (2 * low = u /\ (x[1] \div u) % 2 = 1)
    THEN Normal([x EXCEPT ![1] = @ - low + u])
    ELSE [x EXCEPT ![1] = @ - low]

RoundedTo(x, u) == RoundedAt(x, u, x[1] % u)

RoundedFrom(x, bits) == IF bits <= 53 THEN x ELSE RoundedTo(x, 2 ^ (bits - 53))

\* The result of an operation, rounded to the 53 significant bits of a double.
RoundToDouble(x) == RoundedFrom(x, BitLength(x))

\* score * weight, score an int
FMul(score, w) ==
    LET m == IF score < 0 THEN -score ELSE score
    IN  Double(score < 0, RoundToDouble(Normal([i \in DOMAIN w |-> m * w[i]])))

\* weighted_sum + product
FAdd(x, y) ==
    IF x.neg = y.neg
    THEN Double(x.neg, RoundToDouble(Normal([i \in DOMAIN x.mag |-> x.mag[i] + y.mag[i]])))
    ELSE IF IsNegative([i \in DOMAIN x.mag |-> x.mag[i] - y.mag[i]])
    THEN Double(y.neg, RoundToDouble(Normal([i \in DOMAIN x.mag |-> y.mag[i] - x.mag[i]])))
    ELSE Double(x.neg, RoundToDouble(Normal([i \in DOMAIN x.mag |-> x.mag[i] - y.mag[i]])))

\* The loop over weights.items(), which keeps the order of the literal.
RECURSIVE weighted_sum(_, _)
weighted_sum(scores, i) ==
    IF i = 0 THEN Double(FALSE, <<0, 0, 0, 0, 0>>)
    ELSE FAdd(weighted_sum(scores, i - 1),
              FMul(GetScore(scores, required_criteria[i]).v,
                   binary_weights[required_criteria[i]]))

\* int(x): the digits after the point are dropped.
Truncated(x) ==
    LET whole == x.mag[4] \div (2 ^ 12) + x.mag[5] * (2 ^ 3)
    IN  IF x.neg THEN -whole ELSE whole

\* int(round(x)): the nearest integer of the double's exact value, a tie to
\* the even one.  Bit 57 of the magnitude is the units bit.
Round(x) ==
    LET whole == x.mag[4] \div (2 ^ 12) + x.mag[5] * (2 ^ 3)
        top == x.mag[4] % (2 ^ 12)
        rest == x.mag[1] # 0 \/ x.mag[2] # 0 \/ x.mag[3] # 0
        above == top > 2 ^ 11 \/ (top = 2 ^ 11 /\ rest)
        tie == top = 2 ^ 11 /\ ~rest
        r == IF above \/ (tie /\ whole % 2 = 1) THEN whole + 1 ELSE whole
    IN  IF x.neg THEN -r ELSE r

\* final_score is returned as rounded.
Unclamped(x) == x

\* max(0, min(100, final_score))
Clamp(x) == IF x < 0 THEN 0 ELSE IF x > 100 THEN 100 ELSE x

\* Defined when RaisesTypeError(scores) is false.
calculate_criticality_score(scores) ==
    Clamp(Round(weighted_sum(scores, Len(required_criteria))))

\* ------------------------------------------------------------ assessment text
\* An evaluator text: fmt "json" is an object; scores_is and explanations_is
\* say whether the key holds an object ("dict"), something else ("other") or
\* is missing ("absent"); overall_summary is a string, ABSENT, or NULL for a
\* value that is no string.  fmt "broken" is text json.loads rejects; its
\* fields hold what stands in the text.
Assessment(text, fmt, scores_is, scores, explanations_is, explanations, summary) ==
    [ text |-> text, fmt |-> fmt, fence |-> "", scores_is |-> scores_is, scores |-> scores,
      explanations_is |-> explanations_is, explanations |-> explanations,
      overall_summary |-> summary ]

EmptyDict == [c \in {} |-> 0]

NoAssessment == Assessment(NULL, "none", "absent", EmptyDict, "absent", EmptyDict, ABSENT)

\* The four results of parse_criticality_response, or the exception it lets through.
Parsed(score, summary, scores, explanations) ==
    [ raised |-> FALSE, score |-> score, summary |-> summary,
      scores |-> scores, explanations |-> explanations ]

ParsedNone == Parsed(NoScore, NULL, EmptyDict, EmptyDict)

ParsedRaised == [ParsedNone EXCEPT !.raised = TRUE]

\* The try block: json.loads succeeded and overall_summary is a str.
ParseAssessmentJson(response) ==
    IF response.scores_is # "dict" \/ DOMAIN response.scores = {} THEN ParsedNone
    ELSE IF RaisesTypeError(response.scores) THEN ParsedRaised
    ELSE Parsed(calculate_criticality_score(response.scores),
                IF ~Truthy(Strip(GetOrEmpty(response.overall_summary)))
                  THEN NoSummary ELSE Strip(response.overall_summary),
                response.scores,
                IF response.explanations_is # "dict" \/ DOMAIN response.explanations = {}
                  THEN EmptyDict ELSE response.explanations)

\* What the pattern "<criterion>"\s*:\s*(\d+) finds in the scores object: the
\* criteria whose value starts with a digit.
RegexScores(response) ==
    LET found == { c \in DOMAIN response.scores :
                     IsNumber(response.scores[c]) /\ response.scores[c].v >= 0 }
    IN  [c \in found |-> response.scores[c]]

\* What the pattern "<criterion>"\s*:\s*"([^"]+)" finds first in the text: a
\* string score of the scores object, else the criterion's explanation.
RegexExplanations(response) ==
    LET in_scores == { c \in DOMAIN response.scores :
                         response.scores_is = "dict" /\ response.scores[c].t = "str" }
        in_explanations == IF response.explanations_is = "dict"
                             THEN DOMAIN response.explanations ELSE {}
    IN  [c \in in_scores \cup in_explanations |->
            IF c \in in_scores THEN response.scores[c].s ELSE response.explanations[c]]

\* The except block: the regular expressions on the raw text.
ParseAssessmentFallback(response) ==
    LET scores == IF response.scores_is = "dict" THEN RegexScores(response) ELSE EmptyDict
    IN  IF DOMAIN scores = {} THEN ParsedNone
        ELSE Parsed(calculate_criticality_score(scores),
                    IF Truthy(response.overall_summary)
                      THEN response.overall_summary ELSE Raw(response),
                    scores, RegexExplanations(response))

parse_criticality_response(response) ==
    IF response.fmt \in {"none", "empty"} THEN ParsedNone
    ELSE IF Clean(response).fence = "" /\ response.fmt = "json"
            /\ response.overall_summary # NULL
         THEN ParseAssessmentJson(response)
    ELSE ParseAssessmentFallback(response)

\* ------------------------------------------------------------------ tables
Key(article_id, organization_id) ==
    [article_id |-> article_id, organization_id |-> organization_id]

Matching(rows, article_id, organization_id) ==
    { r \in rows : r.article_id = article_id /\ r.organization_id = organization_id }

\* The serial primary key: a value no stored row has.  Rows are never deleted,
\* and nothing reads the order of the ids, so the id is taken from the pair
\* and from the number of rows the pair already has.
NewId(rows, article_id, organization_id) ==
    (article_id - 1) * Cardinality(Orgs) + organization_id
    + Cardinality(Articles) * Cardinality(Orgs)
      * Cardinality(Matching(rows, article_id, organization_id))

\* NOW(): later than every timestamp the table holds.  Only ORDER BY reads
\* classification_date, so the table keeps each timestamp as its rank among
\* the timestamps stored.
Max(S) == CHOOSE x \in S : \A y \in S : y <= x
Now(rows) == IF rows = {} THEN 1 ELSE Max({ r.classification_date : r \in rows }) + 1
Ranked(rows) ==
    LET dates == { r.classification_date : r \in rows }
    IN  { [r EXCEPT !.classification_date = Cardinality({ d \in dates : d <= @ })]
            : r \in rows }

AnyOrder(S, date) ==
    { q \in [1..Cardinality(S) -> S] : \A i, j \in DOMAIN q : i # j => q[i] # q[j] }

\* The sequences that list the set S once each, in ascending order of date;
\* SQL leaves the order of rows with equal dates open.
OrderedBy(S, date) ==
    { q \in [1..Cardinality(S) -> S] :
        /\ \A i, j \in DOMAIN q : i # j => q[i] # q[j]
        /\ \A i, j \in DOMAIN q : i < j => date[q[i]] <= date[q[j]] }

\* LIMIT %s, appended only when a limit is given.
Limited(q, limit) ==
    IF limit = NoLimit \/ limit >= Len(q) THEN q ELSE SubSeq(q, 1, limit)

\* ---------------------------------------------- multi-tenant classification
PendingWhereMissingWatermark(rows, a, organization_id, organization_created_at) ==
    LET joined == Matching(rows, a, organization_id)
    IN  \/ joined = {}
        \/ \E ac \in joined : ac.status = PENDING \/ LikeFailed(ac.status)

PendingWhereAnyStatus(rows, a, organization_id, organization_created_at) ==
    /\ articles[a].date_published # NoDate
    /\ articles[a].date_published >= organization_created_at

PendingWhereNullDate(rows, a, organization_id, organization_created_at) ==
    LET joined == Matching(rows, a, organization_id)
    IN  /\ \/ joined = {}
           \/ \E ac \in joined : ac.status = PENDING \/ LikeFailed(ac.status)
        /\ \/ articles[a].date_published = NoDate
           \/ articles[a].date_published >= organization_created_at

\* The WHERE clause of the pending query, for article a LEFT JOINed with the
\* organization's classification row.
PendingWhere(rows, a, organization_id, organization_created_at) ==
    LET joined == Matching(rows, a, organization_id)
    IN  /\ \/ joined = {}
           \/ \E ac \in joined : ac.status = PENDING \/ LikeFailed(ac.status)
        /\ articles[a].date_published # NoDate
        /\ articles[a].date_published >= organization_created_at

get_pending_articles_for_organization(organization_id, organization_created_at, limit) ==
    LET selected == { a \in Articles :
                        PendingWhere(article_classifications, a,
                                     organization_id, organization_created_at) }
        date == [a \in selected |-> articles[a].date_published]
    IN  { Limited(q, limit) : q \in OrderedBy(selected, date) }

\* get_all_organizations: the active organizations, ORDER BY id.
get_all_organizations ==
    LET active == { o \in Orgs : organizations[o].is_active }
        id == [o \in active |-> o]
    IN  CHOOSE q \in OrderedBy(active, id) : TRUE

UpsertAlwaysInserts(rows, article_id, organization_id, classification, explanation, advice, reasoning, status) ==
    rows \cup { [ id |-> NewId(rows, article_id, organization_id),
                  article_id |-> article_id,
                  organization_id |-> organization_id,
                  classification |-> classification,
                  explanation |-> explanation,
                  advice |-> advice,
                  reasoning |-> reasoning,
                  status |-> status,
                  classification_date |-> Now(rows),
                  criti_score |-> NoScore,
                  criti_explanation |-> NULL,
                  criti_status |-> CritiStatusDefault ] }

UpsertAnyOrganization(rows, article_id, organization_id, classification, explanation, advice, reasoning, status) ==
    IF { r \in rows : r.article_id = article_id } = {}
    THEN rows \cup { [ id |-> NewId(rows, article_id, organization_id),
                       article_id |-> article_id,
                       organization_id |-> organization_id,
                       classification |-> classification,
                       explanation |-> explanation,
                       advice |-> advice,
                       reasoning |-> reasoning,
                       status |-> status,
                       classification_date |-> Now(rows),
                       criti_score |-> NoScore,
                       criti_explanation |-> NULL,
                       criti_status |-> CritiStatusDefault ] }
    ELSE { IF r.article_id = article_id
             THEN [r EXCEPT !.classification = classification,
                            !.explanation = explanation,
                            !.advice = advice,
                            !.reasoning = reasoning,
                            !.status = status,
                            !.classification_date = Now(rows)]
             ELSE r : r \in rows }

\* INSERT ... ON CONFLICT (article_id, organization_id) DO UPDATE SET ...
upsert_classification(rows, article_id, organization_id, classification, explanation, advice, reasoning, status) ==
    IF Matching(rows, article_id, organization_id) = {}
    THEN rows \cup { [ id |-> NewId(rows, article_id, organization_id),
                       article_id |-> article_id,
                       organization_id |-> organization_id,
                       classification |-> classification,
                       explanation |-> explanation,
                       advice |-> advice,
                       reasoning |-> reasoning,
                       status |-> status,
                       classification_date |-> Now(rows),
                       criti_score |-> NoScore,
                       criti_explanation |-> NULL,
                       criti_status |-> CritiStatusDefault ] }
    ELSE { IF r.article_id = article_id /\ r.organization_id = organization_id
             THEN [r EXCEPT !.classification = classification,
                            !.explanation = explanation,
                            !.advice = advice,
                            !.reasoning = reasoning,
                            !.status = status,
                            !.classification_date = Now(rows)]
             ELSE r : r \in rows }

\* The branch process_organization takes for one result of classify_article:
\* the arguments of its call of upsert_classification.
ClassifyWrite(result) ==
    IF TupleTruthy(result)
    THEN LET parsed == parse_llm_response(result[1])
             classification == parsed[1]
             explanation == parsed[2]
             advice == parsed[3]
         IN  IF Truthy(classification) /\ Truthy(explanation)
             THEN [ classification |-> classification,
                    explanation |-> explanation,
                    advice |-> advice,
                    reasoning |-> IF Truthy(result[2]) THEN result[2] ELSE "",
                    status |-> CLASSIFIED ]
             ELSE [ classification |-> NULL, explanation |-> NULL, advice |-> NULL,
                    reasoning |-> NULL, status |-> FAILED_PARSE ]
    ELSE [ classification |-> NULL, explanation |-> NULL, advice |-> NULL,
           reasoning |-> NULL, status |-> FAILED_NO_RESPONSE ]

Idle == [pc |-> "idle", orgs |-> <<>>, queue |-> <<>>]

NoWrite ==
    [ classification |-> NULL, explanation |-> NULL, advice |-> NULL,
      reasoning |-> NULL, status |-> NULL ]

NoLog ==
    [ stage |-> "none", article_id |-> 0, organization_id |-> 0, classification_id |-> 0,
      no_content |-> FALSE, written |-> NoWrite, conflict |-> FALSE, saved |-> FALSE,
      raised |-> FALSE, counted |-> "none" ]

CountedByBranch(parsed, success) ==
    IF parsed THEN "successful" ELSE "failed"

\* successful += 1 after a write that returned True in the branch of a parsed
\* result; failed += 1 in every other branch.
Counted(parsed, success) ==
    IF parsed /\ success THEN "successful" ELSE "failed"

\* The aggregator was not called.
NotApplied == [pc |-> "none", scores |-> <<>>, raised |-> FALSE, value |-> NoScore]

\* No parser was called.
NotParsed == [pc |-> "none", parser |-> "none", response |-> <<>>, result |-> <<>>]

\* No invocation of the Model Client is in progress or was made.
NoCall ==
    [ pc |-> "idle", stage |-> "none", attempt |-> 0, requests |-> 0,
      responses |-> <<>>, waits |-> <<>>, result |-> <<>> ]

\* os.getenv of the two secrets after load_dotenv(): TRUE for a value that is
\* set and not empty.  Secrets is the environment of a deployed stage.
Secrets == [CHUTES_API_KEY |-> TRUE, DATABASE_URL |-> TRUE]

\* The position of a run at the top of the body of its for loop, before the
\* first item: no request of the run is in flight, none was sent and no item
\* was persisted.  limit is the limit the run gives to its selection query.
AtFor ==
    [ pc |-> "for", limit |-> NoLimit, call |-> NoCall, inflight |-> 0,
      sent |-> <<>>, parsed |-> <<>>, persisted |-> <<>> ]

NoLoop == [r \in ClassifyRuns \cup AssessRuns |-> AtFor]

\* Table articles as the ingestion sees it (one row per link, with the title
\* and the publish time it was stored with), and no call of store_articles.
NotIngested ==
    [ rows |-> {}, script |-> "none", raised |-> FALSE, returned |-> 0 ]

\* ------------------------------------------------------------------ runs
\* process_organization up to its loop: the selection for the first
\* organization of orgs that has pending articles; an organization with none
\* returns at once.  With no organization left, main ends.
RECURSIVE Enter(_, _)
Enter(orgs, limit) ==
    IF orgs = <<>> THEN {Idle}
    ELSE LET o == Head(orgs)
             pending == get_pending_articles_for_organization(
                            o, organizations[o].created_at, limit)
         IN  IF pending = {<<>>} THEN Enter(Tail(orgs), limit)
             ELSE { [pc |-> "items", orgs |-> orgs, queue |-> q] : q \in pending }

ConfiguredWithoutKeyCheck(e) == e.DATABASE_URL

\* The two checks a stage makes before its first request: "if not
\* CHUTES_API_KEY" in main and "if not CONN_STRING" in its first query; each
\* raises RuntimeError.
Configured(e) == e.CHUTES_API_KEY /\ e.DATABASE_URL

\* A run that the RuntimeError of a missing secret ended.
Failed == [Idle EXCEPT !.pc = "failed"]

\* main of the multi-tenant stage up to the first request: the organizations
\* are read, then the first selection is made.
StartClassify(r) ==
    /\ crun[r].pc = "idle"
    /\ Configured(env)
    /\ crun' \in { [crun EXCEPT ![r] = next] :
                     next \in Enter(get_all_organizations, loop[r].limit) }
    /\ loop' = [loop EXCEPT ![r] = [AtFor EXCEPT !.limit = loop[r].limit]]
    /\ UNCHANGED <<articles, organizations, article_classifications,
                   criticality_scores_detail, arun, srun, log, call, applied, parse, env, ingest>>

\* main of the multi-tenant stage with a secret missing: the RuntimeError ends
\* the process before the organizations are read.
StartClassifyRaises(r) ==
    /\ crun[r].pc = "idle"
    /\ ~Configured(env)
    /\ crun' = [crun EXCEPT ![r] = Failed]
    /\ UNCHANGED <<articles, organizations, article_classifications,
                   criticality_scores_detail, arun, srun, log, call, applied, parse, env, loop, ingest>>

\* process_organization of the next organization: its selection query.
SelectPending(r) ==
    /\ crun[r].pc = "orgs"
    /\ crun' \in { [crun EXCEPT ![r] = next] : next \in Enter(crun[r].orgs, loop[r].limit) }
    /\ UNCHANGED <<articles, organizations, article_classifications,
                   criticality_scores_detail, arun, srun, log, call, applied, parse, env, loop, ingest>>

\* One turn of the loop of process_organization for one outcome of the request
\* and of the write: request, parse, persist.  After the last article of the
\* last organization main ends.
ClassifyStep(r, result, db_ok) ==
    /\ crun[r].pc = "items"
    /\ LET article_id == Head(crun[r].queue)
           org_id == Head(crun[r].orgs)
           w == ClassifyWrite(result)
       IN  /\ article_classifications' =
                IF db_ok
                THEN Ranked(upsert_classification(article_classifications,
                         article_id, org_id, w.classification, w.explanation,
                         w.advice, w.reasoning, w.status))
                ELSE article_classifications
           /\ log' = [ stage |-> "classify", article_id |-> article_id,
                       organization_id |-> org_id, classification_id |-> 0,
                       no_content |-> (result[1] = NoContent),
                       written |-> w,
                       conflict |-> (Matching(article_classifications,
                                              article_id, org_id) # {}),
                       saved |-> db_ok, raised |-> FALSE,
                       counted |-> Counted(w.status = CLASSIFIED, db_ok) ]
    /\ crun' = [crun EXCEPT ![r] =
                  IF Len(crun[r].queue) > 1 THEN [crun[r] EXCEPT !.queue = Tail(@)]
                  ELSE IF Len(crun[r].orgs) > 1
                       THEN [pc |-> "orgs", orgs |-> Tail(crun[r].orgs), queue |-> <<>>]
                       ELSE Idle]
    /\ UNCHANGED <<articles, organizations, criticality_scores_detail, arun, srun, call, applied, parse, env, ingest>>

ClassifyItem(r) ==
    /\ \E result \in ClassifyResults, db_ok \in BOOLEAN : ClassifyStep(r, result, db_ok)
    /\ UNCHANGED loop

\* The store as the ingestion and the tenant management leave it: organization
\* 1 was created at time 1, organization 2 at time 0 and may be inactive.
Init ==
    /\ articles \in [Articles -> [date_published : Times \cup {NoDate},
                                  status : {ArticleStatusDefault},
                                  classification : {NULL},
                                  explanation : {NULL},
                                  reasoning : {NULL}]]
    /\ articles[1].date_published = 0
    /\ organizations \in { [o \in Orgs |-> [created_at |-> 2 - o,
                                           is_active |-> (o = 1 \/ b)]]
                           : b \in BOOLEAN }
    /\ article_classifications = {}
    /\ criticality_scores_detail = {}
    /\ crun = [r \in ClassifyRuns |-> Idle]
    /\ arun = [r \in AssessRuns |-> Idle]
    /\ srun = [r \in SingleRuns |-> Idle]
    /\ log = NoLog
    /\ call = NoCall
    /\ applied = NotApplied
    /\ parse = NotParsed
    /\ env = Secrets
    /\ loop = NoLoop
    /\ ingest = NotIngested

Next ==
    \/ \E r \in ClassifyRuns : StartClassify(r)
    \/ \E r \in ClassifyRuns : SelectPending(r)
    \/ \E r \in ClassifyRuns : ClassifyItem(r)

Spec == Init /\ [][Next]_vars

\* ------------------------------------------------------------ assessment stage
AssessWhereAnyStatus(ac) == ac.criti_status = WAITING \/ ac.criti_status = FAILED

\* The WHERE clause of the assessment query.
AssessWhere(ac) ==
    /\ ac.status = CLASSIFIED
    /\ (ac.criti_status = WAITING \/ ac.criti_status = FAILED)

\* The columns the query returns of a row, and the two it filters on.
Selection(ac) ==
    [ id |-> ac.id, article_id |-> ac.article_id, classification |-> ac.classification,
      explanation |-> ac.explanation, advice |-> ac.advice, reasoning |-> ac.reasoning,
      organization_id |-> ac.organization_id,
      status |-> ac.status, criti_status |-> ac.criti_status ]

get_classifications_needing_assessment(limit) ==
    LET selected == { ac \in article_classifications : AssessWhere(ac) }
        date == [ac \in selected |-> ac.classification_date]
    IN  { Limited([i \in DOMAIN q |-> Selection(q[i])], limit)
            : q \in OrderedBy(selected, date) }

DetailRow(classification_id, scores_dict, explanations_dict) ==
    [ article_classification_id |-> classification_id,
      scores |-> [c \in Criteria |-> GetScore(scores_dict, c).v],
      explanations |-> [c \in Criteria |->
                          IF c \in DOMAIN explanations_dict
                            THEN explanations_dict[c] ELSE ""] ]

UpsertDetailKeepsFirst(details, row) ==
    IF \E d \in details : d.article_classification_id = row.article_classification_id
      THEN details ELSE details \cup {row}

\* INSERT ... ON CONFLICT (article_classification_id) DO UPDATE SET ...
UpsertDetail(details, row) ==
    { d \in details : d.article_classification_id # row.article_classification_id }
    \cup {row}

UpdateRollup(rows, classification_id, criti_score, criti_explanation, criti_status) ==
    { IF r.id = classification_id
        THEN [r EXCEPT !.criti_score = criti_score,
                       !.criti_explanation = criti_explanation,
                       !.criti_status = criti_status]
        ELSE r : r \in rows }

UpdateAlwaysWritesDetail(rows, details, classification_id, criti_score, criti_explanation, criti_status, scores_dict, explanations_dict) ==
    [ rows |-> UpdateRollup(rows, classification_id, criti_score,
                            criti_explanation, criti_status),
      details |-> UpsertDetail(details, DetailRow(classification_id, scores_dict,
                                                   explanations_dict)) ]

UpdateNeverWritesDetail(rows, details, classification_id, criti_score, criti_explanation, criti_status, scores_dict, explanations_dict) ==
    [ rows |-> UpdateRollup(rows, classification_id, criti_score,
                            criti_explanation, criti_status),
      details |-> details ]

\* The two statements of update_criticality_score, committed together.
update_criticality_score(rows, details, classification_id, criti_score, criti_explanation, criti_status, scores_dict, explanations_dict) ==
    [ rows |-> UpdateRollup(rows, classification_id, criti_score,
                            criti_explanation, criti_status),
      details |-> IF DOMAIN scores_dict # {} /\ criti_status = GIVEN
                    THEN UpsertDetail(details, DetailRow(classification_id, scores_dict,
                                                         explanations_dict))
                    ELSE details ]

\* What assess_classification can return: (content, finish_reason), or
\* (None, None) on every failure path.
AssessFailure == <<NoAssessment, NULL>>

GoodScores ==
    [ c \in Criteria |->
        CASE c = "correctness_factual_soundness" -> Num(80)
          [] c = "relevance_alignment" -> Num(70)
          [] c = "reasoning_transparency" -> Num(60)
          [] c = "practical_usefulness_actionability" -> Num(90)
          [] c = "clarity_communication_quality" -> Num(50)
          [] c = "safety_bias_appropriateness" -> Num(100) ]

Reasons == [c \in Criteria |-> "why"]

\* Scores the evaluator was not asked for: every criterion above 100, and
\* every criterion below 0.
HighScores == [c \in Criteria |-> Num(150)]

LowScores == [c \in Criteria |-> Num(-20)]

\* The evaluator texts the stage is run on: a complete object, an object with
\* a criterion score given as a string, an object without scores, and
\* complete objects with scores outside 0..100.
AssessContents ==
    { Assessment("e1", "json", "dict", GoodScores, "dict", Reasons, "S"),
      Assessment("e2", "json", "dict",
                 [GoodScores EXCEPT !["correctness_factual_soundness"] = Str("80")],
                 "dict", Reasons, "S"),
      Assessment("e3", "json", "absent", EmptyDict, "absent", EmptyDict, "S"),
      Assessment("e4", "json", "dict", HighScores, "dict", Reasons, "S"),
      Assessment("e5", "json", "dict", LowScores, "dict", Reasons, "S") }

AssessResults == {AssessFailure} \cup { <<c, "stop">> : c \in AssessContents }

\* The call of update_criticality_score process_classifications makes for one
\* result of assess_classification; raised when the parser's exception ends the run.
AssessWrite(result) ==
    IF TupleTruthy(result) /\ result[1].fmt # "none"
    THEN LET p == parse_criticality_response(result[1])
         IN  IF p.raised
               THEN [ raised |-> TRUE, score |-> NoScore, explanation |-> NULL,
                      status |-> NULL, scores |-> EmptyDict, explanations |-> EmptyDict ]
             ELSE IF p.score # NoScore
               THEN [ raised |-> FALSE, score |-> p.score, explanation |-> p.summary,
                      status |-> GIVEN, scores |-> p.scores,
                      explanations |-> p.explanations ]
             ELSE [ raised |-> FALSE, score |-> NoScore,
                    explanation |-> ParseFailedMessage, status |-> FAILED,
                    scores |-> EmptyDict, explanations |-> EmptyDict ]
    ELSE [ raised |-> FALSE, score |-> NoScore, explanation |-> NoResponseMessage,
           status |-> FAILED, scores |-> EmptyDict, explanations |-> EmptyDict ]

\* AssessWrite, tabulated over the results.
RECURSIVE AssessWriteTable(_)
AssessWriteTable(results) ==
    IF results = {} THEN <<>>
    ELSE LET result == CHOOSE x \in results : TRUE
         IN  (result :> AssessWrite(result)) @@ AssessWriteTable(results \ {result})

\* Responses that hold some of the six criteria only: an object with two of
\* them, and an object the decoder gives up on (its summary is null) in whose
\* text the patterns find five scores, the sixth being a string.
PartialScores ==
    [ c \in {"relevance_alignment", "clarity_communication_quality"} |-> GoodScores[c] ]

PartialContents ==
    { Assessment("e9", "json", "dict", PartialScores, "dict", Reasons, "S"),
      Assessment("e10", "json", "dict",
                 [GoodScores EXCEPT !["correctness_factual_soundness"] = Str("80")],
                 "dict", Reasons, NULL) }

\* The results the detail rows are checked on.
DetailResults ==
    {AssessFailure}
    \cup { <<c, "stop">> : c \in PartialContents }
    \cup { <<c, "stop">> : c \in { x \in AssessContents : x.text \in {"e1", "e4"} } }

AssessWrites == AssessWriteTable(AssessResults \cup DetailResults)

\* main of the assessment stage up to the first request: the selection.
StartAssess(r) ==
    /\ arun[r].pc = "idle"
    /\ Configured(env)
    /\ \E q \in get_classifications_needing_assessment(loop[r].limit) :
          /\ q # <<>>
          /\ arun' = [arun EXCEPT ![r] = [pc |-> "items", orgs |-> <<>>, queue |-> q]]
    /\ loop' = [loop EXCEPT ![r] = [AtFor EXCEPT !.limit = loop[r].limit]]
    /\ UNCHANGED <<articles, organizations, article_classifications,
                   criticality_scores_detail, crun, srun, log, call, applied, parse, env, ingest>>

\* main of the assessment stage with a secret missing: the RuntimeError ends
\* the process before or inside the selection.
StartAssessRaises(r) ==
    /\ arun[r].pc = "idle"
    /\ ~Configured(env)
    /\ arun' = [arun EXCEPT ![r] = Failed]
    /\ UNCHANGED <<articles, organizations, article_classifications,
                   criticality_scores_detail, crun, srun, log, call, applied, parse, env, loop, ingest>>

\* One turn of the loop of process_classifications for one outcome of the
\* request and of the write: request, parse, persist.  An exception out of the
\* parser ends the run with the rest of the batch undone.
AssessItemStep(r, result, db_ok) ==
    /\ arun[r].pc = "items"
    /\ LET item == Head(arun[r].queue)
           w == AssessWrites[result]
           db == update_criticality_score(article_classifications,
                     criticality_scores_detail, item.id, w.score, w.explanation,
                     w.status, w.scores, w.explanations)
           stored == db_ok /\ ~w.raised
       IN  /\ article_classifications' =
                 IF stored THEN db.rows ELSE article_classifications
           /\ criticality_scores_detail' =
                 IF stored THEN db.details ELSE criticality_scores_detail
           /\ log' = [ stage |-> "assess", article_id |-> item.article_id,
                       organization_id |-> item.organization_id,
                       classification_id |-> item.id,
                       no_content |-> (result[1] = NoAssessment),
                       written |-> [NoWrite EXCEPT !.status = w.status],
                       conflict |-> (\E d \in criticality_scores_detail :
                                        d.article_classification_id = item.id),
                       saved |-> stored, raised |-> w.raised,
                       counted |-> IF w.raised THEN "none"
                                   ELSE Counted(w.status = GIVEN, db_ok) ]
           /\ arun' = [arun EXCEPT ![r] =
                         IF w.raised \/ Len(arun[r].queue) = 1 THEN Idle
                         ELSE [arun[r] EXCEPT !.queue = Tail(@)]]
    /\ UNCHANGED <<articles, organizations, crun, srun, call, applied, parse, env, ingest>>

AssessItem(r) ==
    /\ \E result \in AssessResults, db_ok \in BOOLEAN : AssessItemStep(r, result, db_ok)
    /\ UNCHANGED loop

\* The table as a classification run leaves it when article a got results[a].
RECURSIVE ClassifiedBy(_, _, _)
ClassifiedBy(results, organization_id, n) ==
    IF n = 0 THEN {}
    ELSE LET w == ClassifyWrite(results[n])
         IN  Ranked(upsert_classification(ClassifiedBy(results, organization_id, n - 1),
                        n, organization_id, w.classification, w.explanation,
                        w.advice, w.reasoning, w.status))

\* The assessment stage on its own: organization 1 is the only active one,
\* every article is within its watermark and a classification run is over.
InitAssess ==
    /\ articles = [a \in Articles |-> [date_published |-> MaxTime,
                                       status |-> ArticleStatusDefault,
                                       classification |-> NULL,
                                       explanation |-> NULL,
                                       reasoning |-> NULL]]
    /\ organizations = [o \in Orgs |-> [created_at |-> 2 - o, is_active |-> (o = 1)]]
    /\ \E results \in [Articles -> ClassifyResults] :
          article_classifications = ClassifiedBy(results, 1, NArticles)
    /\ criticality_scores_detail = {}
    /\ crun = [r \in ClassifyRuns |-> Idle]
    /\ arun = [r \in AssessRuns |-> Idle]
    /\ srun = [r \in SingleRuns |-> Idle]
    /\ log = NoLog
    /\ call = NoCall
    /\ applied = NotApplied
    /\ parse = NotParsed
    /\ env = Secrets
    /\ loop = NoLoop
    /\ ingest = NotIngested

NextAssess ==
    \/ \E r \in AssessRuns : StartAssess(r)
    \/ \E r \in AssessRuns : AssessItem(r)

SpecAssess == InitAssess /\ [][NextAssess]_vars

\* The assessment stage on responses that hold all, some or none of the
\* criteria.
DetailItem(r) ==
    /\ \E result \in DetailResults, db_ok \in BOOLEAN : AssessItemStep(r, result, db_ok)
    /\ UNCHANGED loop

NextDetail ==
    \/ \E r \in AssessRuns : StartAssess(r)
    \/ \E r \in AssessRuns : DetailItem(r)

SpecDetail == InitAssess /\ [][NextDetail]_vars

\* ------------------------------------------------- classification stage claims
HasFields(row, w) ==
    /\ row.classification = w.classification
    /\ row.explanation = w.explanation
    /\ row.advice = w.advice
    /\ row.reasoning = w.reasoning
    /\ row.status = w.status

\* A classification run still holds the pair in the batch it selected.
Selected(a, o) ==
    \E r \in ClassifyRuns :
        /\ crun[r].pc = "items"
        /\ Head(crun[r].orgs) = o
        /\ \E i \in DOMAIN crun[r].queue : crun[r].queue[i] = a

Running(r) == crun[r].pc # "idle"

\* C1: no (article, organization) pair ever has two rows, and after an upsert
\* that was stored the pair has exactly one row, all of whose fields are the
\* ones that upsert was called with, also when two runs overlap.
C1_OneRowPerPair ==
    /\ \A a \in Articles, o \in Orgs :
          Cardinality(Matching(article_classifications, a, o)) <= 1
    /\ (log.stage = "classify" /\ log.saved) =>
          \E row \in article_classifications :
             /\ Matching(article_classifications,
                         log.article_id, log.organization_id) = {row}
             /\ HasFields(row, log.written)

\* A stored upsert that found the pair's row, made while both runs are under way.
C1_Witness ==
    /\ log.stage = "classify" /\ log.saved /\ log.conflict
    /\ log.written.status = CLASSIFIED
    /\ \A r \in ClassifyRuns : Running(r)

\* C2: when classify_article returned no content, the pair's row is stored
\* with the status 'FAILED (no response)'.
C2_NoResponseStatus ==
    (log.stage = "classify" /\ log.no_content /\ log.saved) =>
        \A row \in Matching(article_classifications,
                            log.article_id, log.organization_id) :
            row.status = FAILED_NO_RESPONSE

\* C3: every stored label is Threat, Opportunity, Neutral or unset, and a row
\* with status CLASSIFIED holds one of the three labels.
C3_LabelsValid ==
    \A row \in article_classifications :
        /\ row.classification \in valid_classifications \cup {NULL}
        /\ row.status = CLASSIFIED => row.classification \in valid_classifications

\* C6: no row exists for a pair whose article was published before the
\* organization was created.
C6_Watermark ==
    \A row \in article_classifications :
        /\ articles[row.article_id].date_published # NoDate
        /\ articles[row.article_id].date_published
             >= organizations[row.organization_id].created_at

\* An organization has been processed (it has a row) while an article older
\* than the organization has none for it.
C6_Witness ==
    \E a \in Articles, row \in article_classifications :
        /\ articles[a].date_published # NoDate
        /\ articles[a].date_published < organizations[row.organization_id].created_at
        /\ Matching(article_classifications, a, row.organization_id) = {}

SameResult(row, next) ==
    /\ next.article_id = row.article_id
    /\ next.organization_id = row.organization_id
    /\ next.status = row.status
    /\ next.classification = row.classification
    /\ next.explanation = row.explanation
    /\ next.advice = row.advice

\* C10 as stated: once a row is CLASSIFIED no step changes its status, label,
\* explanation or advice, whatever the interleaving of the runs.
C10_ClassifiedTerminal ==
    [][ \A row \in article_classifications :
          row.status = CLASSIFIED =>
            \E next \in article_classifications' : SameResult(row, next) ]_vars

\* C10 amended: a CLASSIFIED row that no run holds in the batch it selected is
\* never selected again and never changed.
C10_TerminalOnceUnselected ==
    [][ \A row \in article_classifications :
          (row.status = CLASSIFIED /\ ~Selected(row.article_id, row.organization_id)) =>
            /\ \E next \in article_classifications' : SameResult(row, next)
            /\ ~Selected(row.article_id, row.organization_id)' ]_vars

\* A run works on an organization whose CLASSIFIED row it does not hold.
C10_Witness ==
    \E row \in article_classifications, r \in ClassifyRuns :
        /\ row.status = CLASSIFIED
        /\ ~Selected(row.article_id, row.organization_id)
        /\ crun[r].pc = "items"
        /\ Head(crun[r].orgs) = row.organization_id

\* ----------------------------------------------------- assessment stage claims
\* Run r handles an item in this step.
AssessStep(r) == arun[r].pc = "items" /\ arun'[r] # arun[r]

HasDetail(classification_id) ==
    \E d \in criticality_scores_detail :
        /\ d.article_classification_id = classification_id
        /\ DOMAIN d.scores = Criteria

\* C4: no item ends a run: each step of a run takes at most the one item it
\* handled off the batch, so every selected item is handled; and a failure
\* that was stored left the status FAILED.
C4_BatchNeverAborted ==
    [][ /\ \A r \in AssessRuns :
              Len(arun'[r].queue) >= Len(arun[r].queue) - 1
        /\ \A r \in ClassifyRuns :
              Len(crun'[r].queue) >= Len(crun[r].queue) - 1
        /\ \A r \in AssessRuns :
              (AssessStep(r) /\ log'.saved /\ log'.written.status = FAILED) =>
                 \A row \in article_classifications' :
                    row.id = log'.classification_id => row.criti_status = FAILED
      ]_vars

\* C7: every item of a batch of the assessment stage had status CLASSIFIED and
\* assessment status WAITING or FAILED when it was selected.
C7_SelectsOnlyEligible ==
    \A r \in AssessRuns : \A i \in DOMAIN arun[r].queue :
        /\ arun[r].queue[i].status = CLASSIFIED
        /\ arun[r].queue[i].criti_status \in {WAITING, FAILED}

\* A run holds a batch while the table has a row with a FAILED status and a
\* row that has been GIVEN since.
C7_Witness ==
    /\ \E r \in AssessRuns : arun[r].pc = "items"
    /\ \E row \in article_classifications : LikeFailed(row.status)
    /\ \E row \in article_classifications : row.criti_status = GIVEN

\* C8: a row whose assessment status is GIVEN has its six-criterion detail
\* row; the detail table changes only in a step that stores an update with
\* status GIVEN, and that step leaves the row GIVEN.
C8_GivenHasDetail ==
    [][ /\ \A row \in article_classifications' :
              row.criti_status = GIVEN => HasDetail(row.id)'
        /\ criticality_scores_detail' # criticality_scores_detail =>
              /\ log'.stage = "assess" /\ log'.saved
              /\ log'.written.status = GIVEN
              /\ \E row \in article_classifications' :
                    row.id = log'.classification_id /\ row.criti_status = GIVEN
      ]_vars

\* A stored assessment: the row is GIVEN and has its detail row.
C8_Witness ==
    /\ log.stage = "assess" /\ log.saved /\ log.written.status = GIVEN
    /\ \E row \in article_classifications :
          row.id = log.classification_id /\ row.criti_status = GIVEN /\ HasDetail(row.id)

\* C9: a step that handles a failed request or an unparseable response leaves
\* the detail table as it is and changes nothing but the rollup of the item's
\* row, which gets status FAILED, no score and the fixed message.
C9_FailureTouchesOnlyRollup ==
    [][ \A r \in AssessRuns :
          (AssessStep(r) /\ ~log'.raised /\ log'.written.status = FAILED) =>
             /\ criticality_scores_detail' = criticality_scores_detail
             /\ article_classifications' =
                  { IF row.id = log'.classification_id /\ log'.saved
                      THEN [row EXCEPT !.criti_score = NoScore,
                                       !.criti_explanation =
                                           IF log'.no_content THEN NoResponseMessage
                                           ELSE ParseFailedMessage,
                                       !.criti_status = FAILED]
                      ELSE row : row \in article_classifications }
      ]_vars

\* A stored failure on a classification that already had a detail row.
C9_Witness ==
    /\ log.stage = "assess" /\ log.saved /\ log.conflict
    /\ log.written.status = FAILED
    /\ HasDetail(log.classification_id)

\* ---------------------------------------------- single-tenant classification
\* parse_llm_response of the single-tenant script: (classification, explanation).
\* Only a line that starts with the exact prefix counts.
parse_llm_response_single(response) ==
    IF ~ContentTruthy(response) THEN <<NULL, NULL>>
    ELSE LET classification == LineValue(response, response.classification)
             explanation == LineValue(response, response.explanation)
         IN  << IF classification \notin valid_classifications
                  THEN ErrorUnknown ELSE classification,
                IF ~Truthy(explanation) THEN Raw(response) ELSE explanation >>

\* WHERE status = 'PENDING'
PendingEntry(a) == articles[a].status = PENDING

\* ORDER BY date_published ASC puts the rows without a date last.
get_pending_entries(limit) ==
    LET selected == { a \in Articles : PendingEntry(a) }
        date == [a \in selected |->
                    IF articles[a].date_published = NoDate THEN MaxTime + 1
                    ELSE articles[a].date_published]
    IN  { Limited(q, limit) : q \in OrderedBy(selected, date) }

\* UPDATE articles SET ... WHERE id = %s
update_database(rows, article_id, classification, explanation, reasoning, status) ==
    [rows EXCEPT ![article_id].classification = classification,
                 ![article_id].explanation = explanation,
                 ![article_id].reasoning = reasoning,
                 ![article_id].status = status]

\* The branch main takes for one result of classify_article.
SingleWrite(result) ==
    IF TupleTruthy(result)
    THEN LET parsed == parse_llm_response_single(result[1])
         IN  IF Truthy(parsed[1]) /\ Truthy(parsed[2])
             THEN [ classification |-> parsed[1], explanation |-> parsed[2],
                    advice |-> NULL,
                    reasoning |-> IF Truthy(result[2]) THEN result[2] ELSE "",
                    status |-> CLASSIFIED ]
             ELSE [ classification |-> NULL, explanation |-> NULL, advice |-> NULL,
                    reasoning |-> NULL, status |-> FAILED_PARSE ]
    ELSE [ classification |-> NULL, explanation |-> NULL, advice |-> NULL,
           reasoning |-> NULL, status |-> FAILED_NO_RESPONSE ]

SingleResults ==
    ClassifyResults
    \cup { <<Content("t4", "lines", Opportunity, "grows market", ABSENT), NULL, "stop">> }

\* main of the single-tenant script up to the first request: the selection.
StartSingle(r) ==
    /\ srun[r].pc = "idle"
    /\ Configured(env)
    /\ \E q \in get_pending_entries(NoLimit) :
          /\ q # <<>>
          /\ srun' = [srun EXCEPT ![r] = [pc |-> "items", orgs |-> <<>>, queue |-> q]]
    /\ UNCHANGED <<articles, organizations, article_classifications,
                   criticality_scores_detail, crun, arun, log, call, applied, parse, env, loop, ingest>>

\* One turn of the loop of main: request, parse, persist.
SingleItem(r) ==
    /\ srun[r].pc = "items"
    /\ \E result \in SingleResults, db_ok \in BOOLEAN :
        LET article_id == Head(srun[r].queue)
            w == SingleWrite(result)
        IN  /\ articles' =
                 IF db_ok
                 THEN update_database(articles, article_id, w.classification,
                                      w.explanation, w.reasoning, w.status)
                 ELSE articles
            /\ log' = [ stage |-> "single", article_id |-> article_id,
                        organization_id |-> 0, classification_id |-> 0,
                        no_content |-> (result[1] = NoContent),
                        written |-> w, conflict |-> TRUE,
                        saved |-> db_ok, raised |-> FALSE,
                        counted |-> Counted(w.status = CLASSIFIED, db_ok) ]
    /\ srun' = [srun EXCEPT ![r] =
                  IF Len(srun[r].queue) > 1 THEN [srun[r] EXCEPT !.queue = Tail(@)]
                  ELSE Idle]
    /\ UNCHANGED <<organizations, article_classifications,
                   criticality_scores_detail, crun, arun, call, applied, parse, env, loop, ingest>>

NextSingle ==
    \/ \E r \in SingleRuns : StartSingle(r)
    \/ \E r \in SingleRuns : SingleItem(r)

SpecSingle == Init /\ [][NextSingle]_vars

\* ------------------------------------------------------------ retry claims
InSequence(x, q) == \E i \in DOMAIN q : q[i] = x

\* C5: once the runs are over, a record they left with a FAILED status is in
\* the selection the next run makes: the pending query of its organization
\* returns its article, and the single-tenant query returns a FAILED article.
C5_FailedIsReselected ==
    /\ \A row \in article_classifications :
          (LikeFailed(row.status) /\ \A r \in ClassifyRuns : crun[r].pc = "idle") =>
             \A q \in get_pending_articles_for_organization(row.organization_id,
                          organizations[row.organization_id].created_at, NoLimit) :
                InSequence(row.article_id, q)
    /\ \A a \in Articles :
          (LikeFailed(articles[a].status) /\ \A r \in SingleRuns : srun[r].pc = "idle") =>
             \A q \in get_pending_entries(NoLimit) : InSequence(a, q)

\* ------------------------------------------------------------ both stages
\* The two stages are separate scripts over the same tables; nothing orders
\* a run of one against a run of the other.  The store holds one dated
\* article, within the watermark of organization 1 only, and one undated one.
InitPipeline ==
    /\ articles = [a \in Articles |->
                      [date_published |-> IF a = 1 THEN MaxTime ELSE NoDate,
                       status |-> ArticleStatusDefault,
                       classification |-> NULL,
                       explanation |-> NULL,
                       reasoning |-> NULL]]
    /\ organizations = [o \in Orgs |->
                           [created_at |-> IF o = 1 THEN MaxTime ELSE MaxTime + 1,
                            is_active |-> TRUE]]
    /\ article_classifications = {}
    /\ criticality_scores_detail = {}
    /\ crun = [r \in ClassifyRuns |-> Idle]
    /\ arun = [r \in AssessRuns |-> Idle]
    /\ srun = [r \in SingleRuns |-> Idle]
    /\ log = NoLog
    /\ call = NoCall
    /\ applied = NotApplied
    /\ parse = NotParsed
    /\ env = Secrets
    /\ loop = NoLoop
    /\ ingest = NotIngested

NextPipeline ==
    \/ \E r \in ClassifyRuns : StartClassify(r)
    \/ \E r \in ClassifyRuns : SelectPending(r)
    \/ \E r \in ClassifyRuns : ClassifyItem(r)
    \/ StartAssess("a1")
    \/ AssessItem("a1")

SpecPipeline == InitPipeline /\ [][NextPipeline]_vars

\* ------------------------------------------------------------ pipeline claims
\* C11: right after a classification step stored a row with status CLASSIFIED,
\* inserted or written over an earlier row, that row's assessment status is
\* WAITING and the assessment query selects it.
C11_ClassifiedIsWaiting ==
    (log.stage = "classify" /\ log.saved /\ log.written.status = CLASSIFIED) =>
        \A row \in Matching(article_classifications, log.article_id, log.organization_id) :
            /\ row.criti_status = WAITING
            /\ AssessWhere(row)

\* ------------------------------------------------------------ recurring runs
\* The outputs that are valid: a label of the three with an explanation, and
\* an assessment the parser turns into a score.
ValidClassifyResults ==
    { result \in ClassifyResults :
        /\ ClassifyWrite(result).status = CLASSIFIED
        /\ ClassifyWrite(result).classification \in valid_classifications }

ValidAssessResults ==
    { result \in AssessResults :
        ~AssessWrites[result].raised /\ AssessWrites[result].status = GIVEN }

\* The items whose failures were transient: from here on the model answers
\* their requests with valid output and their writes are stored.  These are
\* the classification of article 1 for organization 1 and the assessment of
\* article 2 for organization 2.
Healed(stage, article_id, organization_id) ==
    \/ stage = "classify" /\ article_id = 1 /\ organization_id = 1
    \/ stage = "assess" /\ article_id = 2 /\ organization_id = 2

HealClassifyItem(r) ==
    /\ crun[r].pc = "items"
    /\ \E result \in ClassifyResults, db_ok \in BOOLEAN :
          /\ Healed("classify", Head(crun[r].queue), Head(crun[r].orgs)) =>
                (result \in ValidClassifyResults /\ db_ok)
          /\ ClassifyStep(r, result, db_ok)
    /\ UNCHANGED loop

HealAssessItem(r) ==
    /\ arun[r].pc = "items"
    /\ \E result \in AssessResults, db_ok \in BOOLEAN :
          /\ Healed("assess", Head(arun[r].queue).article_id,
                    Head(arun[r].queue).organization_id) =>
                (result \in ValidAssessResults /\ db_ok)
          /\ AssessItemStep(r, result, db_ok)
    /\ UNCHANGED loop

\* The store after earlier runs whose requests failed: organization 2 has every
\* article classified and every assessment FAILED, organization 1 has article 1
\* (the only one within its watermark) with a FAILED classification.
InitHeal ==
    /\ articles = [a \in Articles |->
                      [date_published |-> IF a = 1 THEN MaxTime ELSE 0,
                       status |-> ArticleStatusDefault,
                       classification |-> NULL,
                       explanation |-> NULL,
                       reasoning |-> NULL]]
    /\ organizations = [o \in Orgs |->
                           [created_at |-> IF o = 1 THEN MaxTime ELSE 0,
                            is_active |-> TRUE]]
    /\ \E valid \in ValidClassifyResults :
          LET classified == ClassifiedBy([a \in Articles |-> valid], 2, NArticles)
              w == AssessWrite(AssessFailure)
              assessed == { UpdateRollup({row}, row.id, w.score, w.explanation, w.status)
                              : row \in classified }
              f == ClassifyWrite(ClassifyFailure)
          IN  article_classifications =
                 Ranked(upsert_classification(UNION assessed, 1, 1, f.classification,
                            f.explanation, f.advice, f.reasoning, f.status))
    /\ criticality_scores_detail = {}
    /\ crun = [r \in ClassifyRuns |-> Idle]
    /\ arun = [r \in AssessRuns |-> Idle]
    /\ srun = [r \in SingleRuns |-> Idle]
    /\ log = NoLog
    /\ call = NoCall
    /\ applied = NotApplied
    /\ parse = NotParsed
    /\ env = Secrets
    /\ loop = NoLoop
    /\ ingest = NotIngested

NextHeal ==
    \/ StartClassify("c1")
    \/ SelectPending("c1")
    \/ HealClassifyItem("c1")
    \/ StartAssess("a1")
    \/ HealAssessItem("a1")

\* The scheduler starts each stage again and again, and a started run goes on
\* to its next item.
SpecHeal ==
    /\ InitHeal
    /\ [][NextHeal]_vars
    /\ WF_vars(StartClassify("c1"))
    /\ WF_vars(SelectPending("c1"))
    /\ WF_vars(HealClassifyItem("c1"))
    /\ WF_vars(StartAssess("a1"))
    /\ WF_vars(HealAssessItem("a1"))

\* The two halves of C12: the classification half holds of the code.
C12_ClassificationHeals ==
    <>(\E row \in Matching(article_classifications, 1, 1) : row.status = CLASSIFIED)

C12_AssessmentHeals ==
    <>(\E row \in Matching(article_classifications, 2, 2) : row.criti_status = GIVEN)

\* C12: with runs recurring and the model answering an item with valid output
\* from some point on, the item whose classification failed earlier is
\* eventually CLASSIFIED and the item whose assessment failed earlier is
\* eventually GIVEN.
C12_SelfHeal ==
    /\ C12_ClassificationHeals
    /\ C12_AssessmentHeals

\* ------------------------------------------------------------ Model Client
\* classify_article and assess_classification: the same retry loop around one
\* POST; they differ in the tuple they return.
max_retries == 3
DefaultRetryAfter == 2

ClientStages == {"classify", "assess"}

\* What one POST can meet: a response with a status, a Retry-After header
\* (absent, or its text) and a body (a completion holding content, or
\* something else), or no response at all (a transport error).
Response(kind, status, retry_after, ok, content) ==
    [ kind |-> kind, status |-> status, retry_after |-> retry_after,
      body |-> [ok |-> ok, content |-> content] ]

RetryAfterHeaders == {ABSENT, "1", "5", "soon"}

StageContents(stage) ==
    IF stage = "classify" THEN ClassifyContents ELSE AssessContents

ClientResponses(stage) ==
    { Response("response", 429, h, FALSE, NoContent) : h \in RetryAfterHeaders }
    \cup { Response("response", 200, ABSENT, TRUE, c) : c \in StageContents(stage) }
    \cup { Response("response", 200, ABSENT, FALSE, NoContent),
           Response("response", 500, ABSENT, FALSE, NoContent),
           Response("transport", 0, ABSENT, FALSE, NoContent) }

\* int(header): the value of a decimal text; any other text raises ValueError.
IsIntText(h) == h \in {"1", "5"}
IntOf(h) == CASE h = "1" -> 1 [] h = "5" -> 5
HeaderRaises(h) == h # ABSENT /\ ~IsIntText(h)

RetryAfterIgnoresHeader(h) == DefaultRetryAfter

\* int(response.headers.get('Retry-After', 2))
RetryAfter(h) == IF h = ABSENT THEN DefaultRetryAfter ELSE IntOf(h)

ClientFailure(stage) ==
    IF stage = "classify" THEN ClassifyFailure ELSE AssessFailure

ClientSuccess(stage, content) ==
    IF stage = "classify" THEN <<content, "R", "stop">> ELSE <<content, "stop">>

\* return ...
Returned(c, result) == [c EXCEPT !.pc = "done", !.result = result]

SleptWithoutCountingAttempt(c, wait_time) ==
    [c EXCEPT !.waits = Append(@, wait_time)]

\* await asyncio.sleep(wait_time); continue
Slept(c, wait_time) ==
    [c EXCEPT !.waits = Append(@, wait_time), !.attempt = @ + 1]

WaitTimeWithoutBackoff(retry_after, attempt) ==
    retry_after

\* retry_after if attempt == 0 else retry_after * (2 ** attempt)
WaitTime(retry_after, attempt) ==
    IF attempt = 0 THEN retry_after ELSE retry_after * (2 ^ attempt)

OnClientResponseErrorRetriesAll(c, status) ==
    IF c.attempt < max_retries - 1
      THEN Slept(c, 2 ^ (c.attempt + 1))
      ELSE Returned(c, ClientFailure(c.stage))

\* except aiohttp.ClientResponseError as e
OnClientResponseError(c, status) ==
    IF status = 429 /\ c.attempt < max_retries - 1
      THEN Slept(c, 2 ^ (c.attempt + 1))
      ELSE Returned(c, ClientFailure(c.stage))

\* One turn of the loop: the POST and what the code does with its outcome.
Post(c, resp) ==
    LET sent == [c EXCEPT !.requests = @ + 1, !.responses = Append(@, resp)]
    IN  IF resp.kind = "transport"
          THEN Returned(sent, ClientFailure(c.stage))
        ELSE IF resp.status = 429
          THEN IF HeaderRaises(resp.retry_after)
                 THEN Returned(sent, ClientFailure(c.stage))
                 ELSE Slept(sent, WaitTime(RetryAfter(resp.retry_after), sent.attempt))
        ELSE IF resp.status >= 400
          THEN OnClientResponseError(sent, resp.status)
        ELSE IF resp.body.ok
          THEN Returned(sent, ClientSuccess(c.stage, resp.body.content))
        ELSE Returned(sent, ClientFailure(c.stage))

\* A stage calls the client for an item.
Invoke(stage) ==
    /\ call.pc \in {"idle", "done"}
    /\ call' = [NoCall EXCEPT !.pc = "loop", !.stage = stage]
    /\ UNCHANGED <<articles, organizations, article_classifications,
                   criticality_scores_detail, crun, arun, srun, log, applied, parse, env, loop, ingest>>

\* for attempt in range(max_retries): one turn.
Request ==
    /\ call.pc = "loop"
    /\ call.attempt < max_retries
    /\ \E resp \in ClientResponses(call.stage) : call' = Post(call, resp)
    /\ UNCHANGED <<articles, organizations, article_classifications,
                   criticality_scores_detail, crun, arun, srun, log, applied, parse, env, loop, ingest>>

\* The loop ran out: "Max retries exceeded".
Exhausted ==
    /\ call.pc = "loop"
    /\ call.attempt >= max_retries
    /\ call' = Returned(call, ClientFailure(call.stage))
    /\ UNCHANGED <<articles, organizations, article_classifications,
                   criticality_scores_detail, crun, arun, srun, log, applied, parse, env, loop, ingest>>

NextClient ==
    \/ \E stage \in ClientStages : Invoke(stage)
    \/ Request
    \/ Exhausted

\* A POST ends (with a response or an error) and a sleep ends.
SpecClient ==
    /\ InitPipeline
    /\ [][NextClient]_vars
    /\ WF_vars(Request)
    /\ WF_vars(Exhausted)

\* ------------------------------------------------------------ client claims
RateLimited(resp) == resp.kind = "response" /\ resp.status = 429

ErrorResponse(resp) ==
    \/ resp.kind = "transport"
    \/ resp.kind = "response" /\ resp.status >= 400 /\ resp.status # 429

\* C13: an invocation issues at most max_retries requests, returns a failure
\* when every attempt was answered with 429, and always comes to its return.
C13_BoundedAndTerminates ==
    /\ [](call.requests <= max_retries /\ Len(call.responses) = call.requests)
    /\ []((/\ call.pc = "done"
           /\ call.requests > 0
           /\ \A i \in DOMAIN call.responses : RateLimited(call.responses[i]))
            => call.result = ClientFailure(call.stage))
    /\ (call.pc = "loop") ~> (call.pc = "done")

C13_Witness ==
    /\ call.pc = "done"
    /\ call.requests = max_retries
    /\ \A i \in DOMAIN call.responses : RateLimited(call.responses[i])
    /\ call.result = ClientFailure(call.stage)

\* C14: every 429 whose Retry-After is absent or a number is followed by a
\* wait, and the k-th wait of an invocation (k = 1, 2, 3, after the k-th
\* consecutive 429) is R * 2^(k-1), R being that response's Retry-After, 2
\* when the header is absent.
C14_Backoff ==
    /\ \A k \in DOMAIN call.waits :
          /\ k \in DOMAIN call.responses
          /\ RateLimited(call.responses[k])
          /\ call.waits[k] =
                (IF call.responses[k].retry_after = ABSENT THEN 2
                 ELSE IntOf(call.responses[k].retry_after)) * 2 ^ (k - 1)
    /\ \A i \in DOMAIN call.responses :
          (RateLimited(call.responses[i]) /\ ~HeaderRaises(call.responses[i].retry_after))
            => i \in DOMAIN call.waits

C14_Witness ==
    \/ call.waits = <<5, 10, 20>>
    \/ call.waits = <<2, 4, 8>> /\ call.pc = "done"

\* C15: after a 429 with Retry-After 5 and then a 200 with a completion, the
\* invocation has returned that completion's content, having made two
\* requests and one wait, of 5.
C15_RetryOnce ==
    (/\ Len(call.responses) = 2
     /\ RateLimited(call.responses[1])
     /\ call.responses[1].retry_after = "5"
     /\ call.responses[2].status = 200
     /\ call.responses[2].body.ok)
      => /\ call.pc = "done"
         /\ call.requests = 2
         /\ call.waits = <<5>>
         /\ call.result = ClientSuccess(call.stage, call.responses[2].body.content)

C15_Witness ==
    /\ Len(call.responses) = 2
    /\ RateLimited(call.responses[1])
    /\ call.responses[1].retry_after = "5"
    /\ call.responses[2].status = 200
    /\ call.responses[2].body.ok
    /\ call.result[1] \in StageContents(call.stage)

\* C16: a response with an error status other than 429, or a transport error,
\* is the last thing of its invocation: the failure is returned, with no
\* wait and no request after it.
C16_NoRetryOnError ==
    \A i \in DOMAIN call.responses :
        ErrorResponse(call.responses[i]) =>
            /\ i = Len(call.responses)
            /\ call.pc = "done"
            /\ call.result = ClientFailure(call.stage)
            /\ Len(call.waits) = i - 1

C16_Witness ==
    /\ call.pc = "done"
    /\ call.requests = 2
    /\ ErrorResponse(call.responses[2])
    /\ call.responses[2].kind = "response"

\* ------------------------------------------------------------ score aggregator calls
\* The score maps the aggregator is applied to: every map from some of the
\* criteria to a score of ScoreValues, the map of complete in-range scores
\* GoodScores, and a map with a score that is null.
ScoreValues == {-20, 0, 2, 100, 150}

ScoreMaps ==
    UNION { [D -> { Num(v) : v \in ScoreValues }] : D \in SUBSET Criteria }
    \cup { GoodScores,
           [GoodScores EXCEPT !["correctness_factual_soundness"] = Null] }

InitScore ==
    /\ articles = [a \in Articles |->
                      [date_published |-> NoDate,
                       status |-> ArticleStatusDefault,
                       classification |-> NULL,
                       explanation |-> NULL,
                       reasoning |-> NULL]]
    /\ organizations = [o \in Orgs |-> [created_at |-> 0, is_active |-> TRUE]]
    /\ article_classifications = {}
    /\ criticality_scores_detail = {}
    /\ crun = [r \in ClassifyRuns |-> Idle]
    /\ arun = [r \in AssessRuns |-> Idle]
    /\ srun = [r \in SingleRuns |-> Idle]
    /\ log = NoLog
    /\ call = NoCall
    /\ applied \in { [NotApplied EXCEPT !.pc = "call", !.scores = scores]
                       : scores \in ScoreMaps }
    /\ parse = NotParsed
    /\ env = Secrets
    /\ loop = NoLoop
    /\ ingest = NotIngested

\* calculate_criticality_score(scores): its return value, or the TypeError.
Aggregate ==
    /\ applied.pc = "call"
    /\ applied' =
          IF RaisesTypeError(applied.scores)
            THEN [applied EXCEPT !.pc = "return", !.raised = TRUE]
            ELSE [applied EXCEPT !.pc = "return",
                                 !.value = calculate_criticality_score(applied.scores)]
    /\ UNCHANGED <<articles, organizations, article_classifications,
                   criticality_scores_detail, crun, arun, srun, log, call, parse, env, loop, ingest>>

NextScore == Aggregate

SpecScore == InitScore /\ [][NextScore]_vars

\* ------------------------------------------------------------ aggregator claims
Complete(scores) == DOMAIN scores = Criteria

InRange(scores) ==
    \A c \in DOMAIN scores : IsNumber(scores[c]) /\ scores[c].v \in 0..100

\* C17: for a complete map of integer scores in 0..100 the result is an
\* integer of 0..100 nearest to the weighted sum with weights 0.25, 0.20,
\* 0.20, 0.20, 0.10, 0.05 (at most one half away from it), and the scores 80,
\* 70, 60, 90, 50, 100 give 74.
C17_WeightedSumRounded ==
    (applied.pc = "return" /\ Complete(applied.scores) /\ InRange(applied.scores)) =>
        /\ ~applied.raised
        /\ applied.value \in 0..100
        /\ 100 * applied.value - WeightedSum(applied.scores, Len(required_criteria))
              \in -50..50
        /\ applied.scores = GoodScores => applied.value = 74

C17_Witness ==
    applied.pc = "return" /\ applied.scores = GoodScores /\ applied.value = 74

\* The map in which the criteria that scores lacks are set to 0.
Filled(scores) ==
    [c \in Criteria |-> IF c \in DOMAIN scores THEN scores[c] ELSE Num(0)]

Numeric(scores) == \A c \in DOMAIN scores : IsNumber(scores[c])

\* C18: for a map of numbers that lacks one or more of the six criteria (the
\* empty map included) the call raises no error and returns the value that
\* the map with the missing criteria set to 0 gives.
C18_MissingIsZero ==
    (applied.pc = "return" /\ ~Complete(applied.scores) /\ Numeric(applied.scores)) =>
        /\ ~applied.raised
        /\ applied.value = calculate_criticality_score(Filled(applied.scores))

C18_Witness ==
    /\ applied.pc = "return"
    /\ DOMAIN applied.scores = {"correctness_factual_soundness", "relevance_alignment"}
    /\ applied.scores["correctness_factual_soundness"] = Num(100)
    /\ applied.scores["relevance_alignment"] = Num(2)
    /\ ~applied.raised
    /\ applied.value = 25

\* ------------------------------------------------------------ score range claims
\* The detail row of a classification, as the score map it was stored from.
StoredScores(d) == [c \in Criteria |-> Num(d.scores[c])]

\* C19: the aggregated score of every row with assessment status GIVEN is an
\* integer of 0..100, whatever numbers the evaluator gave (150 or -20 for every
\* criterion included), and when the six stored criterion scores are within
\* 0..100 it is the rounded weighted sum itself, unchanged by the clamp.
C19_AggregateInRange ==
    \A row \in article_classifications :
        row.criti_status = GIVEN =>
            /\ row.criti_score \in 0..100
            /\ \A d \in criticality_scores_detail :
                  (d.article_classification_id = row.id /\ InRange(StoredScores(d))) =>
                      row.criti_score =
                          Round(weighted_sum(StoredScores(d), Len(required_criteria)))

C19_Witness ==
    \E row \in article_classifications, d \in criticality_scores_detail :
        /\ d.article_classification_id = row.id
        /\ row.criti_status = GIVEN
        /\ row.criti_score = 100
        /\ \A c \in Criteria : d.scores[c] = 150

\* C20: every criterion score of every stored detail row is within 0..100.
C20_DetailInRange ==
    \A d \in criticality_scores_detail : \A c \in Criteria : d.scores[c] \in 0..100

\* ------------------------------------------------------------ parser calls
\* The texts the classification parser is applied to.  An object holds for
\* each key a string, nothing (ABSENT) or a value that is no string (NULL);
\* a text of lines holds for each prefix the rest of its line or no such line.
LabelTexts == {Threat, " Neutral ", "Maybe", "", ABSENT}
ExplanationTexts == {"X", "  ", ABSENT}
AdviceTexts == {"Y", "", ABSENT}

JsonTexts ==
    { Content("T", "json", c, e, a) :
        c \in LabelTexts \cup {NULL}, e \in ExplanationTexts \cup {NULL}, a \in AdviceTexts }

LineTexts ==
    { Content("T", "lines", c, e, a) :
        c \in LabelTexts, e \in ExplanationTexts, a \in AdviceTexts }

Fences == {"", JsonFence, BareFence}

ClassificationTexts ==
    { Fenced(t, fence) : t \in JsonTexts \cup LineTexts, fence \in Fences }
    \cup { Content("", "empty", ABSENT, ABSENT, ABSENT), NoContent }

\* The texts the assessment parser is applied to: those of the stage, text
\* json.loads rejects with and without a scores object in it, an object whose
\* overall_summary is no string, the empty text and no text.
AssessmentTexts ==
    { Fenced(t, fence) :
        t \in AssessContents
               \cup { Assessment("e6", "broken", "dict", GoodScores, "dict", Reasons, "S"),
                      Assessment("e7", "broken", "absent", EmptyDict, "absent", EmptyDict,
                                 ABSENT),
                      Assessment("e8", "json", "dict", GoodScores, "dict", Reasons, NULL) },
        fence \in Fences }
    \cup { Assessment("", "empty", "absent", EmptyDict, "absent", EmptyDict, ABSENT),
           NoAssessment }

InitParse ==
    /\ articles = [a \in Articles |->
                      [date_published |-> NoDate,
                       status |-> ArticleStatusDefault,
                       classification |-> NULL,
                       explanation |-> NULL,
                       reasoning |-> NULL]]
    /\ organizations = [o \in Orgs |-> [created_at |-> 0, is_active |-> TRUE]]
    /\ article_classifications = {}
    /\ criticality_scores_detail = {}
    /\ crun = [r \in ClassifyRuns |-> Idle]
    /\ arun = [r \in AssessRuns |-> Idle]
    /\ srun = [r \in SingleRuns |-> Idle]
    /\ log = NoLog
    /\ call = NoCall
    /\ applied = NotApplied
    /\ env = Secrets
    /\ loop = NoLoop
    /\ ingest = NotIngested
    /\ \/ \E t \in ClassificationTexts :
             parse = [NotParsed EXCEPT !.pc = "call", !.parser = "classification",
                                       !.response = t]
       \/ \E t \in AssessmentTexts :
             parse = [NotParsed EXCEPT !.pc = "call", !.parser = "assessment",
                                       !.response = t]

\* parse_llm_response(response) of LLM_multitenant.py
ParseClassification ==
    /\ parse.pc = "call"
    /\ parse.parser = "classification"
    /\ parse' = [parse EXCEPT !.pc = "return",
                              !.result = parse_llm_response(parse.response)]
    /\ UNCHANGED <<articles, organizations, article_classifications,
                   criticality_scores_detail, crun, arun, srun, log, call, applied, env, loop, ingest>>

\* parse_criticality_response(response)
ParseAssessment ==
    /\ parse.pc = "call"
    /\ parse.parser = "assessment"
    /\ parse' = [parse EXCEPT !.pc = "return",
                              !.result = parse_criticality_response(parse.response)]
    /\ UNCHANGED <<articles, organizations, article_classifications,
                   criticality_scores_detail, crun, arun, srun, log, call, applied, env, loop, ingest>>

NextParse == ParseClassification \/ ParseAssessment

SpecParse == InitParse /\ [][NextParse]_vars

\* ------------------------------------------------------------ parser claims
ParserReturned(parser) == parse.pc = "return" /\ parse.parser = parser

\* C21: for every non-empty text the classification parser returns one of the
\* three labels or the sentinel 'Error: Unknown', in JSON mode and in fallback
\* mode; never None and never a label outside the three as it stands.
C21_LabelOrSentinel ==
    (ParserReturned("classification") /\ ContentTruthy(parse.response)) =>
        parse.result[1] \in valid_classifications \cup {ErrorUnknown}

\* The result every parser gives for no text: every component None.
FullFailure(parser, result) ==
    IF parser = "classification" THEN result = <<NULL, NULL, NULL>>
    ELSE ~result.raised /\ result.score = NoScore /\ result.summary = NULL

NonEmpty(response) == response.fmt \notin {"none", "empty"}

\* C22: both parsers return the all-None result only for an empty or absent
\* text; for every non-empty text they return a result with content.
C22_NullOnlyWithoutText ==
    (parse.pc = "return" /\ NonEmpty(parse.response)) =>
        /\ ~FullFailure(parse.parser, parse.result)
        /\ parse.parser = "assessment" => ~parse.result.raised

\* The output holds no value for a key or prefix: none at all, or only blanks.
Missing(field) == field \in {ABSENT, "", "  "}

\* C23: when the output has no explanation the classification parser returns
\* the raw text as the explanation, and when it has no advice it returns the
\* placeholder 'No specific advice provided', in JSON mode and in fallback mode.
C23_MissingFieldDefaults ==
    (ParserReturned("classification") /\ NonEmpty(parse.response)) =>
        /\ Missing(parse.response.explanation) => parse.result[2] = Raw(parse.response)
        /\ Missing(parse.response.advice) => parse.result[3] = NoAdvice

\* The same text without the lines of the fence.
Unwrapped(response) == [response EXCEPT !.fence = ""]

\* C24: a JSON text inside a json fence or a bare fence gets from each parser
\* the result the text gets without the fence.
C24_FenceTransparent ==
    (parse.pc = "return" /\ parse.response.fmt = "json"
        /\ parse.response.fence \in {JsonFence, BareFence}) =>
        parse.result =
            IF parse.parser = "classification"
              THEN parse_llm_response(Unwrapped(parse.response))
              ELSE parse_criticality_response(Unwrapped(parse.response))

\* ------------------------------------------------------------ frame claims
\* C25: no step of the classification stage or of the assessment stage, in
\* multi-tenant mode or in single-tenant mode, inserts, updates or deletes an
\* Article row or an Organization row.
C25_ArticlesAndOrganizationsUntouched ==
    [][articles' = articles /\ organizations' = organizations]_vars

\* ------------------------------------------------------------ retry claims
\* C30: every 429 received while another attempt is left is followed by a wait
\* and then by another request, whatever its Retry-After header holds: nothing,
\* a number of seconds, or text that is no number.
C30_Every429IsRetried ==
    \A i \in DOMAIN call.responses :
        (RateLimited(call.responses[i]) /\ i < max_retries) =>
            /\ i \in DOMAIN call.waits
            /\ call.pc = "done" => call.requests > i

\* ------------------------------------------------------------ parse failure claims
\* What the parser gave is no usable classification: the label is none of the
\* three, or there is no explanation.
Unusable(parsed) ==
    parsed[1] \notin valid_classifications \/ ~Truthy(parsed[2])

\* C29: when the model returned text from which the parser yields no usable
\* label or no explanation, the step stores the pair's row with the status
\* 'FAILED (to parse response)' and with label, explanation, advice and
\* reasoning unset.
C29_ParseFailureStatus ==
    [][\A r \in ClassifyRuns, result \in ClassifyResults :
          (/\ ClassifyStep(r, result, TRUE)
           /\ ContentTruthy(result[1])
           /\ Unusable(parse_llm_response(result[1])))
          => \A row \in Matching(article_classifications',
                                 log'.article_id, log'.organization_id) :
                /\ row.status = FAILED_PARSE
                /\ row.classification = NULL
                /\ row.explanation = NULL
                /\ row.advice = NULL
                /\ row.reasoning = NULL]_vars


\* ------------------------------------------------------- the item loop, by step
\* The loops of process_organization and process_classifications, one
\* suspension point at a time: the POST is issued, its outcome arrives, the
\* result is parsed, the row is written.
StageOf(r) == IF r \in ClassifyRuns THEN "classify" ELSE "assess"
RunOf(r) == IF r \in ClassifyRuns THEN crun[r] ELSE arun[r]

\* The item the for loop is at, as (article, organization).
ItemOf(r) ==
    IF r \in ClassifyRuns
    THEN <<Head(crun[r].queue), Head(crun[r].orgs)>>
    ELSE <<Head(arun[r].queue).article_id, Head(arun[r].queue).organization_id>>

SuspendedNever(l) == FALSE

\* result = await classify_article(...) and, inside it, async with
\* session.post(...): the coroutine does not go on while its POST is in flight.
Suspended(l) == l.pc = "post"

\* The outcomes of a POST the loops are run on.
LoopResponses(stage) ==
    { resp \in ClientResponses(stage) :
        /\ resp.retry_after = ABSENT
        /\ resp.status \in {200, 429}
        /\ resp.status = 200 => (resp.body.ok /\ resp.body.content.text \in {"t1", "e1"}) }

\* session.post(...) is entered: for the first attempt of an item the call of
\* the client starts here.
Posted(l, stage, item) ==
    IF l.pc = "for"
    THEN [l EXCEPT !.pc = "post", !.inflight = @ + 1, !.sent = Append(@, item),
                   !.call = [NoCall EXCEPT !.pc = "loop", !.stage = stage]]
    ELSE [l EXCEPT !.pc = "post", !.inflight = @ + 1]

Send(r) ==
    /\ RunOf(r).pc = "items"
    /\ ~Suspended(loop[r])
    /\ loop[r].pc \in {"for", "call", "post"}
    /\ loop[r].pc # "for" => loop[r].call.attempt < max_retries
    /\ loop' = [loop EXCEPT ![r] = Posted(@, StageOf(r), ItemOf(r))]
    /\ UNCHANGED <<articles, organizations, article_classifications,
                   criticality_scores_detail, crun, arun, srun, log, call, applied,
                   parse, env, ingest>>

\* The POST ends: the client returns, or sleeps and goes to its next attempt.
Receive(r, resp) ==
    /\ loop[r].pc = "post"
    /\ loop[r].inflight > 0
    /\ LET c == Post(loop[r].call, resp)
       IN  loop' = [loop EXCEPT ![r] =
                      [@ EXCEPT !.call = c, !.inflight = @ - 1,
                                !.pc = IF c.pc = "done" THEN "result" ELSE "call"]]
    /\ UNCHANGED <<articles, organizations, article_classifications,
                   criticality_scores_detail, crun, arun, srun, log, call, applied,
                   parse, env, ingest>>

\* The attempts ran out: the client returns its failure without a POST.
GiveUp(r) ==
    /\ loop[r].pc = "call"
    /\ loop[r].call.attempt >= max_retries
    /\ loop' = [loop EXCEPT ![r] =
                  [@ EXCEPT !.pc = "result",
                            !.call = Returned(@, ClientFailure(StageOf(r)))]]
    /\ UNCHANGED <<articles, organizations, article_classifications,
                   criticality_scores_detail, crun, arun, srun, log, call, applied,
                   parse, env, ingest>>

\* "if result:" and "if result and result[0] is not None:", the conditions
\* under which the loops call their parser.
Parses(stage, result) ==
    IF stage = "classify" THEN TupleTruthy(result)
    ELSE TupleTruthy(result) /\ result[1].fmt # "none"

\* The parser is called on the content of the result.
ParseResult(r) ==
    /\ loop[r].pc = "result"
    /\ Parses(StageOf(r), loop[r].call.result)
    /\ loop' = [loop EXCEPT ![r] =
                  [@ EXCEPT !.pc = "parsed", !.parsed = Append(@, ItemOf(r))]]
    /\ UNCHANGED <<articles, organizations, article_classifications,
                   criticality_scores_detail, crun, arun, srun, log, call, applied,
                   parse, env, ingest>>

\* The write of the item, after which the for loop is at its next item.
Persist(r, db_ok) ==
    /\ \/ loop[r].pc = "parsed"
       \/ loop[r].pc = "result" /\ ~Parses(StageOf(r), loop[r].call.result)
    /\ IF r \in ClassifyRuns
         THEN ClassifyStep(r, loop[r].call.result, db_ok)
         ELSE AssessItemStep(r, loop[r].call.result, db_ok)
    /\ loop' = [loop EXCEPT ![r] =
                  [@ EXCEPT !.pc = "for", !.call = NoCall,
                            !.persisted = Append(@, ItemOf(r))]]

\* The limits a selection is run with.
Limits == {NoLimit, 1}

\* The store of the ingestion: article a was published at time
\* (NArticles - a) % (MaxTime + 1), so that the older article has the larger
\* id; organization 1 was created at time 1, organization 2 at time 0.  Every
\* combination of the two secrets with a limit is a start.
InitBatch ==
    /\ articles = [a \in Articles |->
                      [date_published |-> (NArticles - a) % (MaxTime + 1),
                       status |-> ArticleStatusDefault,
                       classification |-> NULL,
                       explanation |-> NULL,
                       reasoning |-> NULL]]
    /\ organizations = [o \in Orgs |-> [created_at |-> 2 - o, is_active |-> TRUE]]
    /\ article_classifications = {}
    /\ criticality_scores_detail = {}
    /\ crun = [r \in ClassifyRuns |-> Idle]
    /\ arun = [r \in AssessRuns |-> Idle]
    /\ srun = [r \in SingleRuns |-> Idle]
    /\ log = NoLog
    /\ call = NoCall
    /\ applied = NotApplied
    /\ parse = NotParsed
    /\ env \in [CHUTES_API_KEY : BOOLEAN, DATABASE_URL : BOOLEAN]
    /\ \E limit \in Limits :
          loop = [NoLoop EXCEPT !["c1"].limit = limit, !["a1"].limit = limit]
    /\ ingest = NotIngested

\* One run of each stage, its steps taken one at a time; the schedule starts a
\* stage when the other is over, and the database takes every write.
NextBatch ==
    \/ arun["a1"].pc # "items" /\ StartClassify("c1")
    \/ StartClassifyRaises("c1")
    \/ SelectPending("c1")
    \/ crun["c1"].pc \notin {"items", "orgs"} /\ StartAssess("a1")
    \/ StartAssessRaises("a1")
    \/ \E r \in {"c1", "a1"} : Send(r)
    \/ \E r \in {"c1", "a1"} : \E resp \in LoopResponses(StageOf(r)) : Receive(r, resp)
    \/ \E r \in {"c1", "a1"} : GiveUp(r)
    \/ \E r \in {"c1", "a1"} : ParseResult(r)
    \/ \E r \in {"c1", "a1"} : Persist(r, TRUE)

SpecBatch == InitBatch /\ [][NextBatch]_vars


\* ------------------------------------------------------------ loop claims
\* A secret the process needs is not set, or is set to the empty string.
MissingSecret == ~env.CHUTES_API_KEY \/ ~env.DATABASE_URL

\* C28: when the API key or the database connection string is missing, a run
\* of either stage fails at its start: no step issues a request of the Model
\* Client, no step changes a row of article_classifications or of
\* criticality_scores_detail, and no run gets to its items.
C28_FailsAtStart ==
    [][ MissingSecret =>
          /\ article_classifications' = article_classifications
          /\ criticality_scores_detail' = criticality_scores_detail
          /\ \A r \in DOMAIN loop :
                loop'[r].inflight = loop[r].inflight /\ loop'[r].sent = loop[r].sent
          /\ \A r \in ClassifyRuns : crun'[r].pc \in {"idle", "failed"}
          /\ \A r \in AssessRuns : arun'[r].pc \in {"idle", "failed"}
      ]_vars

\* Both stages were started without the API key and both ended at the check.
C28_Witness ==
    /\ ~env.CHUTES_API_KEY
    /\ crun["c1"] = Failed
    /\ arun["a1"] = Failed
    /\ article_classifications = {}
    /\ \A r \in DOMAIN loop : loop[r].sent = <<>> /\ loop[r].inflight = 0


Range(q) == { q[i] : i \in DOMAIN q }

\* C26: within a run the items are processed one at a time.  At most one
\* request of the run is in flight; the items whose write is over are the
\* items requested, in the same order, but for the one item in progress;
\* only that item can have a request in flight or a parse without a write.
C26_OneAtATime ==
    \A r \in DOMAIN loop :
        LET l == loop[r]
        IN  /\ l.inflight <= 1
            /\ Len(l.sent) <= Len(l.persisted) + 1
            /\ SubSeq(l.sent, 1, Len(l.persisted)) = l.persisted
            /\ l.inflight = 1 => Len(l.sent) = Len(l.persisted) + 1
            /\ \A x \in Range(l.parsed) :
                  x \in Range(l.persisted) \/ x = l.sent[Len(l.sent)]

\* A classification run wrote its first item after a parse and has a retry of
\* the request of its second item in flight.
C26_Witness ==
    LET l == loop["c1"]
    IN  /\ Len(l.persisted) = 1
        /\ l.parsed = l.persisted
        /\ Len(l.sent) = 2
        /\ l.inflight = 1
        /\ l.call.attempt > 0


\* The publish time of the article of an item, and the classification
\* timestamp of its row.
PublishTime(item) == articles[item[1]].date_published
ClassificationTime(item) ==
    LET row == CHOOSE ac \in Matching(article_classifications, item[1], item[2]) : TRUE
    IN  row.classification_date

NonDecreasing(q) == \A i, j \in DOMAIN q : i < j => q[i] <= q[j]

\* C27 as stated: the requests of a classification run are in non-decreasing
\* publish-time order, those of an assessment run in non-decreasing
\* classification-timestamp order, and a run with limit N requests at most its
\* N items.
C27_OldestFirstInRun ==
    /\ \A r \in ClassifyRuns :
          NonDecreasing([i \in DOMAIN loop[r].sent |-> PublishTime(loop[r].sent[i])])
    /\ \A r \in AssessRuns :
          NonDecreasing([i \in DOMAIN loop[r].sent |-> ClassificationTime(loop[r].sent[i])])
    /\ \A r \in DOMAIN loop :
          loop[r].limit # NoLimit => Len(loop[r].sent) <= loop[r].limit

\* q lists, oldest first, the oldest elements of S: all of them, or limit of
\* them when a limit is given.
Oldest(q, S, date, limit) ==
    /\ Range(q) \subseteq S
    /\ Len(q) = Cardinality(Range(q))
    /\ Len(q) = IF limit = NoLimit \/ limit > Cardinality(S) THEN Cardinality(S) ELSE limit
    /\ \A i, j \in DOMAIN q : i < j => date[q[i]] <= date[q[j]]
    /\ \A x \in S \ Range(q) : \A i \in DOMAIN q : date[q[i]] <= date[x]

\* The articles the pending query of organization o sees as eligible.
EligibleArticles(o) ==
    { a \in Articles :
        /\ articles[a].date_published # NoDate
        /\ articles[a].date_published >= organizations[o].created_at
        /\ \A ac \in Matching(article_classifications, a, o) :
              ac.status = PENDING \/ LikeFailed(ac.status) }

EligibleClassifications ==
    { ac.id : ac \in { row \in article_classifications :
                         /\ row.status = CLASSIFIED
                         /\ row.criti_status \in {WAITING, FAILED} } }

\* C27, per selection: whenever a run makes a selection, its batch lists the
\* eligible items oldest first (by publish time for an organization of the
\* classification stage, by classification timestamp for the assessment
\* stage), and with a limit N it holds the N oldest of them; the run then
\* requests the items of the batch in that order, so that within a
\* classification run the requests of one organization are in non-decreasing
\* publish-time order, and those of an assessment run in non-decreasing
\* classification-timestamp order.
C27_OldestFirstPerSelection ==
    [][ /\ \A r \in ClassifyRuns :
              /\ (crun[r].pc # "items" /\ crun'[r].pc = "items") =>
                    Oldest(crun'[r].queue, EligibleArticles(Head(crun'[r].orgs)),
                           [a \in Articles |-> articles[a].date_published],
                           loop[r].limit)
              /\ Len(loop'[r].sent) > Len(loop[r].sent) =>
                    loop'[r].sent = Append(loop[r].sent,
                                       <<Head(crun[r].queue), Head(crun[r].orgs)>>)
              /\ (crun[r].pc = "items" /\ crun'[r].pc = "items") =>
                    crun'[r].queue \in {crun[r].queue, Tail(crun[r].queue)}
              /\ \A i, j \in DOMAIN loop'[r].sent :
                    (i < j /\ loop'[r].sent[i][2] = loop'[r].sent[j][2]) =>
                       PublishTime(loop'[r].sent[i]) <= PublishTime(loop'[r].sent[j])
        /\ \A r \in AssessRuns :
              /\ (arun[r].pc # "items" /\ arun'[r].pc = "items") =>
                    Oldest([i \in DOMAIN arun'[r].queue |-> arun'[r].queue[i].id],
                           EligibleClassifications,
                           [id \in EligibleClassifications |->
                              (CHOOSE ac \in article_classifications : ac.id = id)
                                 .classification_date],
                           loop[r].limit)
              /\ Len(loop'[r].sent) > Len(loop[r].sent) =>
                    loop'[r].sent = Append(loop[r].sent,
                                       << Head(arun[r].queue).article_id,
                                          Head(arun[r].queue).organization_id >>)
              /\ (arun[r].pc = "items" /\ arun'[r].pc = "items") =>
                    arun'[r].queue \in {arun[r].queue, Tail(arun[r].queue)}
              /\ NonDecreasing([i \in DOMAIN loop[r].sent |->
                                   ClassificationTime(loop[r].sent[i])])
      ]_vars

\* A classification run with limit 1 requested the one article organization 1
\* can see and then, for organization 2, the older of its two articles.
C27_Witness ==
    LET l == loop["c1"]
    IN  /\ l.limit = 1
        /\ Len(l.sent) = 2
        /\ l.sent[1][2] # l.sent[2][2]
        /\ Cardinality(EligibleArticles(l.sent[2][2])) = 2
        /\ PublishTime(l.sent[1]) > PublishTime(l.sent[2])
        /\ \A a \in Articles : PublishTime(l.sent[2]) <= articles[a].date_published


\* ------------------------------------------------------------ detail claims
\* The result holds a response that decodes to an object with a scores object.
HasScoresObject(result) ==
    /\ TupleTruthy(result)
    /\ result[1].fmt = "json"
    /\ result[1].scores_is = "dict"
    /\ DOMAIN result[1].scores # {}

\* C31: every assessment step on a decoded response that holds a scores
\* object computes the aggregate without an exception and stores the row as
\* GIVEN with a detail row of six numbers, whatever the values under the
\* criterion keys are.
C31_ScoresObjectIsAggregated ==
    [][ \A r \in AssessRuns, result \in AssessResults :
           (AssessItemStep(r, result, TRUE) /\ HasScoresObject(result)) =>
              /\ ~log'.raised
              /\ \E row \in article_classifications' :
                    row.id = log'.classification_id /\ row.criti_status = GIVEN
              /\ \E d \in criticality_scores_detail' :
                    /\ d.article_classification_id = log'.classification_id
                    /\ \A c \in Criteria : d.scores[c] \in Int
      ]_vars


\* C33: for every row with assessment status GIVEN the stored aggregate is
\* calculate_criticality_score of the six scores of its detail row, in which
\* a criterion the response lacked is stored as 0.
C33_AggregateMatchesDetail ==
    \A row \in article_classifications :
        row.criti_status = GIVEN =>
           \E d \in criticality_scores_detail :
              /\ d.article_classification_id = row.id
              /\ row.criti_score =
                    calculate_criticality_score([c \in Criteria |-> Num(d.scores[c])])

\* A row is GIVEN on a response with two of the six criteria: the four others
\* are stored as 0 and the aggregate is round(0.20 * 70 + 0.10 * 50) = 19.
C33_Witness ==
    \E row \in article_classifications, d \in criticality_scores_detail :
        /\ d.article_classification_id = row.id
        /\ row.criti_status = GIVEN
        /\ row.criti_score = 19
        /\ d.scores["correctness_factual_soundness"] = 0
        /\ d.scores["relevance_alignment"] = 70


\* ------------------------------------------------------------------ ingestion
\* store_articles of fetch-data-and-write-to-db_multitenant.py (PostgreSQL) and
\* of fetch_rss_feeds.py (SQLite).  A feed entry holds a link, a title and the
\* text of its publish date, which the RSS format parses or which is absent.
RssDate == "Mon, 02 Nov 2026 10:00:00 +0000"

Entries == [link : {"l1", "l2"}, title : {"T1", "T2"}, published : {RssDate, ABSENT}]

\* The batches of one feed: none, one or two entries.
Batches ==
    {<<>>} \cup { <<e>> : e \in Entries } \cup { <<e, f>> : e, f \in Entries }

\* datetime.strptime(raw_date, '%a, %d %b %Y %H:%M:%S %z')
Parses_strptime(raw_date) == raw_date = RssDate

ArticleRow(entry, date_published) ==
    [ link |-> entry.link, title |-> entry.title, date_published |-> date_published ]

\* The position of the for loop of store_articles: the rows the connection
\* sees, the count of new articles, the local date_published ("unbound"
\* before its first assignment) and whether an exception left the loop.
Storing(rows) == [rows |-> rows, count |-> 0, date_published |-> "unbound", raised |-> FALSE]

\* One turn of the loop of the PostgreSQL script: date_published = None, then
\* the parsed date; INSERT ... ON CONFLICT (link) DO NOTHING RETURNING id.
StoreEntry(st, entry) ==
    LET date == IF Parses_strptime(entry.published) THEN "parsed" ELSE NULL
    IN  IF \E r \in st.rows : r.link = entry.link
          THEN st
          ELSE [st EXCEPT !.rows = @ \cup {ArticleRow(entry, date)}, !.count = @ + 1]

\* One turn of the loop of the SQLite script: date_published is assigned only
\* when the date parses (a bare except passes otherwise); SELECT id ... WHERE
\* link = ?, then the INSERT, which reads date_published.
StoreEntrySqlite(st, entry) ==
    LET date == IF Parses_strptime(entry.published) THEN "parsed" ELSE st.date_published
    IN  IF st.raised THEN st
        ELSE IF \E r \in st.rows : r.link = entry.link
          THEN [st EXCEPT !.date_published = date]
        ELSE IF date = "unbound"
          THEN [st EXCEPT !.raised = TRUE]
        ELSE [st EXCEPT !.rows = @ \cup {ArticleRow(entry, date)}, !.count = @ + 1,
                        !.date_published = date]

RECURSIVE StoreLoop(_, _, _)
StoreLoop(st, articles_batch, script) ==
    IF articles_batch = <<>> THEN st
    ELSE StoreLoop(IF script = "postgres" THEN StoreEntry(st, Head(articles_batch))
                   ELSE StoreEntrySqlite(st, Head(articles_batch)),
                   Tail(articles_batch), script)

\* store_articles(articles) of the PostgreSQL script: the with block commits,
\* or an error rolls the transaction back and 0 is returned.
store_articles(rows, articles_batch, db_ok) ==
    LET st == StoreLoop(Storing(rows), articles_batch, "postgres")
    IN  IF db_ok
          THEN [rows |-> st.rows, script |-> "postgres", raised |-> FALSE,
                returned |-> st.count]
          ELSE [rows |-> rows, script |-> "postgres", raised |-> FALSE, returned |-> 0]

\* store_articles(articles, db_path) of the SQLite script: an exception leaves
\* the function before connect.commit(), and the inserts are lost with the
\* connection.
store_articles_sqlite(rows, articles_batch, db_ok) ==
    LET st == StoreLoop(Storing(rows), articles_batch, "sqlite")
    IN  IF st.raised \/ ~db_ok
          THEN [rows |-> rows, script |-> "sqlite", raised |-> TRUE, returned |-> 0]
          ELSE [rows |-> st.rows, script |-> "sqlite", raised |-> FALSE,
                returned |-> st.count]

StoreArticles ==
    /\ \E articles_batch \in Batches, db_ok \in BOOLEAN :
          ingest' = store_articles(ingest.rows, articles_batch, db_ok)
    /\ UNCHANGED <<articles, organizations, article_classifications,
                   criticality_scores_detail, crun, arun, srun, log, call, applied,
                   parse, env, loop>>

StoreArticlesSqlite ==
    /\ \E articles_batch \in Batches, db_ok \in BOOLEAN :
          ingest' = store_articles_sqlite(ingest.rows, articles_batch, db_ok)
    /\ UNCHANGED <<articles, organizations, article_classifications,
                   criticality_scores_detail, crun, arun, srun, log, call, applied,
                   parse, env, loop>>

NextIngest == StoreArticles \/ StoreArticlesSqlite

SpecIngest == InitPipeline /\ [][NextIngest]_vars

\* C32: ingestion is idempotent on the link.  After every call of
\* store_articles no two rows share a link, every row stored before the call
\* is unchanged, and the call returns the number of rows it inserted, which is
\* 0 when its write failed.
C32_IdempotentOnLink ==
    [][ ingest' # ingest =>
          /\ \A r, q \in ingest'.rows : r.link = q.link => r = q
          /\ ingest.rows \subseteq ingest'.rows
          /\ ~ingest'.raised
          /\ ingest'.returned = Cardinality(ingest'.rows \ ingest.rows)
      ]_vars


\* C34: under every interleaving of classification and assessment runs a row
\* whose assessment status is GIVEN has classification status CLASSIFIED.
C34_GivenIsClassified ==
    \A row \in article_classifications :
        row.criti_status = GIVEN => row.status = CLASSIFIED


\* C35: within one invocation of the model client every backoff wait is
\* followed by another request: an invocation that has returned after n
\* requests has made at most n - 1 waits.
C35_WaitThenRequest ==
    (call.pc = "done" /\ call.requests > 0) => Len(call.waits) <= call.requests - 1


\* ------------------------------------------------------ runs with a batch limit
\* The newest article is the one whose model output is valid; for organization
\* 1 every older article fails on every attempt.
WouldBeValid(article_id) == article_id = NArticles

KeepsFailing(article_id, organization_id) ==
    article_id < NArticles /\ organization_id = 1

\* The scheduler's runs call process_organization with limit = 1.
InitStarve ==
    /\ articles = [a \in Articles |->
                      [date_published |-> IF WouldBeValid(a) THEN MaxTime ELSE 0,
                       status |-> ArticleStatusDefault,
                       classification |-> NULL,
                       explanation |-> NULL,
                       reasoning |-> NULL]]
    /\ organizations = [o \in Orgs |-> [created_at |-> 0, is_active |-> TRUE]]
    /\ article_classifications = {}
    /\ criticality_scores_detail = {}
    /\ crun = [r \in ClassifyRuns |-> Idle]
    /\ arun = [r \in AssessRuns |-> Idle]
    /\ srun = [r \in SingleRuns |-> Idle]
    /\ log = NoLog
    /\ call = NoCall
    /\ applied = NotApplied
    /\ parse = NotParsed
    /\ env = Secrets
    /\ loop = [NoLoop EXCEPT !["c1"].limit = 1]
    /\ ingest = NotIngested

StarveClassifyItem(r) ==
    /\ crun[r].pc = "items"
    /\ \E result \in ClassifyResults, db_ok \in BOOLEAN :
          /\ WouldBeValid(Head(crun[r].queue)) =>
                (result \in ValidClassifyResults /\ db_ok)
          /\ KeepsFailing(Head(crun[r].queue), Head(crun[r].orgs)) =>
                ClassifyWrite(result).status # CLASSIFIED
          /\ ClassifyStep(r, result, db_ok)
    /\ UNCHANGED loop

NextStarve ==
    \/ StartClassify("c1")
    \/ SelectPending("c1")
    \/ StarveClassifyItem("c1")

\* The scheduler starts the stage again and again, and a started run goes on
\* to its next item.
SpecStarve ==
    /\ InitStarve
    /\ [][NextStarve]_vars
    /\ WF_vars(StartClassify("c1"))
    /\ WF_vars(SelectPending("c1"))
    /\ WF_vars(StarveClassifyItem("c1"))

\* C36: with a batch limit per run, failing items do not starve the others:
\* the article whose model output is valid is eventually classified for
\* organization 1, although an older article of that organization keeps failing.
C36_NoStarvation ==
    <>(\E row \in Matching(article_classifications, NArticles, 1) :
          row.status = CLASSIFIED)


\* ------------------------------------------------------------ tenant isolation
\* A row without its timestamp, which the table keeps as a rank.
Stored(row) == [row EXCEPT !.classification_date = 0]

RowsOfOthers(rows, organization_id) ==
    { Stored(row) : row \in { x \in rows : x.organization_id # organization_id } }

\* C37: when a classification run that is at organization O writes the result
\* of an item, the request it made for the item was built from O's tuple, every
\* row that is new or changed belongs to O, and the rows of every other
\* organization are what they were.
C37_TenantIsolation ==
    [][ \A r \in ClassifyRuns :
          Len(loop'[r].persisted) > Len(loop[r].persisted) =>
             LET O == Head(crun[r].orgs)
             IN  /\ loop[r].sent[Len(loop[r].sent)][2] = O
                 /\ RowsOfOthers(article_classifications', O)
                      = RowsOfOthers(article_classifications, O)
                 /\ \A row \in article_classifications' :
                       Stored(row) \notin { Stored(x) : x \in article_classifications }
                          => row.organization_id = O
      ]_vars

\* The run wrote an item of organization 2 while organization 1 has a row.
C37_Witness ==
    /\ \E i \in DOMAIN loop["c1"].persisted : loop["c1"].persisted[i][2] = 2
    /\ \E row \in article_classifications : row.organization_id = 1
    /\ \E row \in article_classifications : row.organization_id = 2


\* ------------------------------------------------- articles without a date
\* C38: an article stored without a publish timestamp is in no batch a
\* classification run selected, for any organization, and has no
\* classification row.
C38_UndatedNeverClassified ==
    \A a \in Articles :
        articles[a].date_published = NoDate =>
            /\ \A r \in ClassifyRuns : a \notin Range(crun[r].queue)
            /\ \A row \in article_classifications : row.article_id # a

\* Article 2 has no date, and a run that has written article 1 for
\* organization 2 is over.
C38_Witness ==
    /\ articles[2].date_published = NoDate
    /\ crun["c1"].pc = "idle"
    /\ log.stage = "classify" /\ log.saved
    /\ Matching(article_classifications, 1, 2) # {}


\* ------------------------------------------------------- a write that fails
\* Run r handles an item in this step, its result parsed to a classification,
\* and the database refuses the write.
WriteFails(r) ==
    /\ crun[r].pc = "items"
    /\ crun'[r] # crun[r]
    /\ log'.written.status = CLASSIFIED
    /\ ~log'.saved

StillPending(rows, article_id, organization_id) ==
    PendingWhere(rows, article_id, organization_id,
                 organizations[organization_id].created_at)

\* C39 as stated: after such a step nothing was raised, the table is what it
\* was, the item is counted as failed, and the pending query selects the item.
C39_FailedWriteReselected ==
    [][ \A r \in ClassifyRuns :
          WriteFails(r) =>
             /\ ~log'.raised
             /\ article_classifications' = article_classifications
             /\ log'.counted = "failed"
             /\ StillPending(article_classifications',
                             Head(crun[r].queue), Head(crun[r].orgs)) ]_vars

\* C39 amended: the same, where the pending query selects the item unless
\* another run has stored the pair as CLASSIFIED since this run selected it.
C39_FailedWriteReselectedUnlessClassified ==
    [][ \A r \in ClassifyRuns :
          WriteFails(r) =>
             /\ ~log'.raised
             /\ article_classifications' = article_classifications
             /\ log'.counted = "failed"
             /\ \/ StillPending(article_classifications',
                                Head(crun[r].queue), Head(crun[r].orgs))
                \/ \E row \in Matching(article_classifications,
                                       Head(crun[r].queue), Head(crun[r].orgs)) :
                      row.status = CLASSIFIED ]_vars

\* A parsed classification was refused by the database and counted as failed,
\* and the pair keeps the FAILED row of an earlier attempt.
C39_Witness ==
    /\ log.stage = "classify"
    /\ log.written.status = CLASSIFIED
    /\ ~log.saved
    /\ log.counted = "failed"
    /\ \E row \in Matching(article_classifications, log.article_id, log.organization_id) :
          LikeFailed(row.status)
    /\ StillPending(article_classifications, log.article_id, log.organization_id)

====
